---- MODULE Spec2Model ----
(***************************************************************************)
(* Quotation mining over a corpus of speeches (vnglst/un):                 *)
(*   scripts/analyze_quotations.py  untargeted scan, fuzzy grouping,       *)
(*                                  known-quote lookup, ranked report      *)
(*   scripts/extract_quotations.py  figure-anchored (targeted) extraction  *)
(*                                  into the quotations table              *)
(*                                                                         *)
(* Text is modelled at character level: a string is a sequence of          *)
(* characters.  A printable ASCII character is the one-character string    *)
(* of itself (the grave accent excepted, which is "U+0060"); tab, newline, *)
(* form feed and carriage return are "\t", "\n", "\f" and "\r"; every      *)
(* other character is the string "U+" and its code point in four or more   *)
(* upper-case hexadecimal digits (HELLIP is "U+2026", a vertical tab       *)
(* "U+000B", a capital E with acute "U+00C9").                             *)
(*                                                                         *)
(* What the scripts leave to the store or to the process is a choice made  *)
(* where the run starts: the order of rows that a query does not order     *)
(* (rows of one year under ORDER BY year, the rows of notable_figures) is  *)
(* the store's and stays as it is while the tables are unchanged; the      *)
(* string hashes, and with them the order in which a set lists its keys,   *)
(* are the process's and change from run to run.                           *)
(***************************************************************************)
EXTENDS Integers, Sequences, FiniteSets, TLC

VARIABLES
    nq_pc,        \* normalizer harness: "start", "once", "twice", "done"
    nq_in,        \* the string handed to normalize_quote
    nq_kind,      \* the decoration applied to nq_in for the comparison run
    nq_out,       \* normalize_quote(nq_in)
    nq_out2,      \* normalize_quote(nq_out)
    nq_deco_out   \* normalize_quote(Decorate(nq_kind, nq_in))

VARIABLES
    corpus,       \* table speeches: rows [id, year, country_name, speaker, text]
    by_year,      \* the rows as this store yields them under ORDER BY year
    run,          \* which run of the analysis script this is
    pc,           \* "start", "analyze", "report", "console", "done"
    speeches,     \* the rows fetched, ordered by year
    scanned,      \* how many speeches the scan loop has processed
    all_quotes,   \* the quote instances found so far
    all_pos,      \* for each entry of all_quotes, match.start() of its match
    used,         \* indices of all_quotes already in a group
    gi,           \* how many rounds the grouping loop has made
    clusters,     \* the index lists of all groups built, singletons included
    quote_groups, \* the groups kept
    report,       \* what generate_report wrote in this run
    console,      \* the console listing of this run
    prev_report,  \* the report of the previous run
    prev_console  \* the console listing of the previous run

VARIABLES
    at_pc,        \* attribution harness: "start", "extracted", "scanned"
    at_case,      \* the text at hand: a figure's alias, "said" and a quoted span
    at_extracted, \* what extract_quotations_for_figure returns for the text
    at_targeted,  \* what is left of it after deduplicate_quotations
    at_scanned    \* what the untargeted scan finds in the text

VARIABLES
    ex_pc,            \* extraction main: "start", "connected", "cleared", "figures",
                      \* "committed", "done", "aborted"
    ex_run,           \* which run of the extraction script this is
    ex_store,         \* condition of the store during this run
    ex_figures_table, \* table notable_figures: rows [id, name, search_patterns], in
                      \* the order in which this store yields them
    ex_chunks_by_year, \* the join as this store yields it under ORDER BY s.year DESC
    ex_chunks_table,  \* chunks joined with speeches: rows [chunk_id, speech_id, text,
                      \* year, country_name, speaker]
    ex_table,         \* table quotations as committed: what a reader sees
    ex_pending,       \* the rows inserted in the open transaction
    ex_before,        \* table quotations when this run started
    ex_prev,          \* how the previous run ended: "none", "done", "aborted"
    ex_figures,       \* the rows main fetched from notable_figures
    ex_fi,            \* how many figures the loop has processed
    ex_totals,        \* <<total_quotations, total_direct_quotes>>
    ex_error          \* the exception that ended the run, or "none"

VARIABLES
    dq_pc,        \* deduplication harness: "start", "once", "twice"
    dq_in,        \* the list handed to deduplicate_quotations
    dq_out,       \* deduplicate_quotations(dq_in)
    dq_again      \* deduplicate_quotations(dq_out)

VARIABLES
    da_pc,          \* discourse_analysis main: "start", "tables", "concepts", "done"
    da_run,         \* which run of the discourse analysis script this is
    da_created,     \* whether the discourse tables exist in the store
    concepts,       \* table concepts: rows [id, name, description, category]
    concept_terms,  \* table concept_terms: rows [id, concept_id, term, term_type, weight]
    world_events,   \* table world_events: rows [id, name, year, end_year, category,
                    \* region, description]
    event_concepts, \* table event_concepts: rows [event_id, concept_id, relevance]
    da_ci,          \* how many entries of CONCEPTS the loop of seed_concepts has done
    da_ei,          \* how many entries of WORLD_EVENTS the loop of seed_world_events has done
    da_console,     \* the counts the seeding printed in this run
    da_counts       \* for each finished run, the row counts of the four tables after it

nq_vars == <<nq_pc, nq_in, nq_kind, nq_out, nq_out2, nq_deco_out>>

an_vars == <<corpus, by_year, run, pc, speeches, scanned, all_quotes, all_pos, used, gi,
             clusters, quote_groups, report, console, prev_report, prev_console>>

at_vars == <<at_pc, at_case, at_extracted, at_targeted, at_scanned>>

ex_vars == <<ex_pc, ex_run, ex_store, ex_figures_table, ex_chunks_by_year, ex_chunks_table, ex_table,
             ex_pending, ex_before, ex_prev, ex_figures, ex_fi, ex_totals, ex_error>>

dq_vars == <<dq_pc, dq_in, dq_out, dq_again>>

da_vars == <<da_pc, da_run, da_created, concepts, concept_terms, world_events,
             event_concepts, da_ci, da_ei, da_console, da_counts>>

vars == <<nq_vars, an_vars, at_vars, ex_vars, dq_vars, da_vars>>

\* the deduplication harness at rest
DedupIdle ==
    /\ dq_pc = "idle"
    /\ dq_in = <<>>
    /\ dq_out = <<>>
    /\ dq_again = <<>>

\* the discourse analysis script not run
DiscourseIdle ==
    /\ da_pc = "idle"
    /\ da_run = 0
    /\ da_created = FALSE
    /\ concepts = <<>>
    /\ concept_terms = <<>>
    /\ world_events = <<>>
    /\ event_concepts = <<>>
    /\ da_ci = 0
    /\ da_ei = 0
    /\ da_console = <<>>
    /\ da_counts = <<>>

(***************************************************************************)
(* Characters and strings                                                  *)
(***************************************************************************)
Chars(s) == [i \in 1..Len(s) |-> SubSeq(s, i, i)]

HELLIP == "U+2026"
ENDASH == "U+2013"
EMDASH == "U+2014"

UpperSeq == Chars("ABCDEFGHIJKLMNOPQRSTUVWXYZ")
LowerSeq == Chars("abcdefghijklmnopqrstuvwxyz")
UpperSet == {UpperSeq[i] : i \in 1..Len(UpperSeq)}
LowerSet == {LowerSeq[i] : i \in 1..Len(LowerSeq)}

\* the grave accent, which a string constant cannot hold
GRAVE == "U+0060"

\* the printable ASCII characters, U+0020 to U+007E
AsciiSeq == Chars(" !\"#$%&'()*+,-./0123456789:;<=>?@ABCDEFGHIJKLMNOPQRSTUVWXYZ")
                \o Chars("[\\]^_") \o <<GRAVE>> \o Chars("abcdefghijklmnopqrstuvwxyz{|}~")

HexDigits == Chars("0123456789ABCDEF")

\* the number a sequence of hexadecimal digits (upper case) writes, after acc
RECURSIVE HexNumber(_, _)
HexNumber(ds, acc) ==
    IF ds = <<>> THEN acc
    ELSE HexNumber(Tail(ds),
                   16 * acc + (CHOOSE k \in 0..15 : HexDigits[k + 1] = ds[1]))

\* the hexadecimal digits of n, as a string
RECURSIVE HexString(_)
HexString(n) ==
    IF n < 16 THEN HexDigits[n + 1]
    ELSE HexString(n \div 16) \o HexDigits[(n % 16) + 1]

\* ord(c)
CodePoint(c) ==
    IF Len(c) > 1 THEN HexNumber(Chars(SubSeq(c, 3, Len(c))), 0)
    ELSE CASE c = "\t" -> 9
           [] c = "\n" -> 10
           [] c = "\f" -> 12
           [] c = "\r" -> 13
           [] OTHER -> 31 + (CHOOSE k \in 1..Len(AsciiSeq) : AsciiSeq[k] = c)

\* chr(cp)
CharOf(cp) ==
    CASE cp = 9 -> "\t"
      [] cp = 10 -> "\n"
      [] cp = 12 -> "\f"
      [] cp = 13 -> "\r"
      [] cp >= 32 /\ cp <= 126 -> AsciiSeq[cp - 31]
      [] OTHER -> "U+" \o (CASE cp < 16 -> "000" [] cp < 256 -> "00" [] cp < 4096 -> "0"
                             [] OTHER -> "") \o HexString(cp)

\* simple lower case beyond ASCII: <<first, last, step, offset>>; the code
\* points first, first + step, ... last have their lower case offset away
LowerRanges == {
    <<192, 214, 1, 32>>, <<216, 222, 1, 32>>, <<256, 302, 2, 1>>, <<304, 304, 1, -199>>,
    <<306, 310, 2, 1>>, <<313, 327, 2, 1>>, <<330, 374, 2, 1>>, <<376, 376, 1, -121>>,
    <<377, 381, 2, 1>>, <<385, 385, 1, 210>>, <<386, 388, 2, 1>>, <<390, 390, 1, 206>>,
    <<391, 391, 1, 1>>, <<393, 394, 1, 205>>, <<395, 395, 1, 1>>, <<398, 398, 1, 79>>,
    <<399, 399, 1, 202>>, <<400, 400, 1, 203>>, <<401, 401, 1, 1>>, <<403, 403, 1, 205>>,
    <<404, 404, 1, 207>>, <<406, 406, 1, 211>>, <<407, 407, 1, 209>>, <<408, 408, 1, 1>>,
    <<412, 412, 1, 211>>, <<413, 413, 1, 213>>, <<415, 415, 1, 214>>, <<416, 420, 2, 1>>,
    <<422, 422, 1, 218>>, <<423, 423, 1, 1>>, <<425, 425, 1, 218>>, <<428, 428, 1, 1>>,
    <<430, 430, 1, 218>>, <<431, 431, 1, 1>>, <<433, 434, 1, 217>>, <<435, 437, 2, 1>>,
    <<439, 439, 1, 219>>, <<440, 440, 1, 1>>, <<444, 444, 1, 1>>, <<452, 452, 1, 2>>, <<453,
    453, 1, 1>>, <<455, 455, 1, 2>>, <<456, 456, 1, 1>>, <<458, 458, 1, 2>>, <<459, 475, 2,
    1>>, <<478, 494, 2, 1>>, <<497, 497, 1, 2>>, <<498, 500, 2, 1>>, <<502, 502, 1, -97>>,
    <<503, 503, 1, -56>>, <<504, 542, 2, 1>>, <<544, 544, 1, -130>>, <<546, 562, 2, 1>>,
    <<570, 570, 1, 10795>>, <<571, 571, 1, 1>>, <<573, 573, 1, -163>>, <<574, 574, 1,
    10792>>, <<577, 577, 1, 1>>, <<579, 579, 1, -195>>, <<580, 580, 1, 69>>, <<581, 581, 1,
    71>>, <<582, 590, 2, 1>>, <<880, 882, 2, 1>>, <<886, 886, 1, 1>>, <<895, 895, 1, 116>>,
    <<902, 902, 1, 38>>, <<904, 906, 1, 37>>, <<908, 908, 1, 64>>, <<910, 911, 1, 63>>,
    <<913, 929, 1, 32>>, <<931, 939, 1, 32>>, <<975, 975, 1, 8>>, <<984, 1006, 2, 1>>,
    <<1012, 1012, 1, -60>>, <<1015, 1015, 1, 1>>, <<1017, 1017, 1, -7>>, <<1018, 1018, 1,
    1>>, <<1021, 1023, 1, -130>>, <<1024, 1039, 1, 80>>, <<1040, 1071, 1, 32>>, <<1120,
    1152, 2, 1>>, <<1162, 1214, 2, 1>>, <<1216, 1216, 1, 15>>, <<1217, 1229, 2, 1>>, <<1232,
    1326, 2, 1>>, <<1329, 1366, 1, 48>>, <<4256, 4293, 1, 7264>>, <<4295, 4295, 1, 7264>>,
    <<4301, 4301, 1, 7264>>, <<5024, 5103, 1, 38864>>, <<5104, 5109, 1, 8>>, <<7312, 7354,
    1, -3008>>, <<7357, 7359, 1, -3008>>, <<7680, 7828, 2, 1>>, <<7838, 7838, 1, -7615>>,
    <<7840, 7934, 2, 1>>, <<7944, 7951, 1, -8>>, <<7960, 7965, 1, -8>>, <<7976, 7983, 1,
    -8>>, <<7992, 7999, 1, -8>>, <<8008, 8013, 1, -8>>, <<8025, 8031, 2, -8>>, <<8040, 8047,
    1, -8>>, <<8072, 8079, 1, -8>>, <<8088, 8095, 1, -8>>, <<8104, 8111, 1, -8>>, <<8120,
    8121, 1, -8>>, <<8122, 8123, 1, -74>>, <<8124, 8124, 1, -9>>, <<8136, 8139, 1, -86>>,
    <<8140, 8140, 1, -9>>, <<8152, 8153, 1, -8>>, <<8154, 8155, 1, -100>>, <<8168, 8169, 1,
    -8>>, <<8170, 8171, 1, -112>>, <<8172, 8172, 1, -7>>, <<8184, 8185, 1, -128>>, <<8186,
    8187, 1, -126>>, <<8188, 8188, 1, -9>>, <<8486, 8486, 1, -7517>>, <<8490, 8490, 1,
    -8383>>, <<8491, 8491, 1, -8262>>, <<8498, 8498, 1, 28>>, <<8544, 8559, 1, 16>>, <<8579,
    8579, 1, 1>>, <<9398, 9423, 1, 26>>, <<11264, 11311, 1, 48>>, <<11360, 11360, 1, 1>>,
    <<11362, 11362, 1, -10743>>, <<11363, 11363, 1, -3814>>, <<11364, 11364, 1, -10727>>,
    <<11367, 11371, 2, 1>>, <<11373, 11373, 1, -10780>>, <<11374, 11374, 1, -10749>>,
    <<11375, 11375, 1, -10783>>, <<11376, 11376, 1, -10782>>, <<11378, 11378, 1, 1>>,
    <<11381, 11381, 1, 1>>, <<11390, 11391, 1, -10815>>, <<11392, 11490, 2, 1>>, <<11499,
    11501, 2, 1>>, <<11506, 11506, 1, 1>>, <<42560, 42604, 2, 1>>, <<42624, 42650, 2, 1>>,
    <<42786, 42798, 2, 1>>, <<42802, 42862, 2, 1>>, <<42873, 42875, 2, 1>>, <<42877, 42877,
    1, -35332>>, <<42878, 42886, 2, 1>>, <<42891, 42891, 1, 1>>, <<42893, 42893, 1,
    -42280>>, <<42896, 42898, 2, 1>>, <<42902, 42920, 2, 1>>, <<42922, 42922, 1, -42308>>,
    <<42923, 42923, 1, -42319>>, <<42924, 42924, 1, -42315>>, <<42925, 42925, 1, -42305>>,
    <<42926, 42926, 1, -42308>>, <<42928, 42928, 1, -42258>>, <<42929, 42929, 1, -42282>>,
    <<42930, 42930, 1, -42261>>, <<42931, 42931, 1, 928>>, <<42932, 42946, 2, 1>>, <<42948,
    42948, 1, -48>>, <<42949, 42949, 1, -42307>>, <<42950, 42950, 1, -35384>>, <<42951,
    42953, 2, 1>>, <<42960, 42960, 1, 1>>, <<42966, 42968, 2, 1>>, <<42997, 42997, 1, 1>>,
    <<65313, 65338, 1, 32>>, <<66560, 66599, 1, 40>>, <<66736, 66771, 1, 40>>, <<66928,
    66938, 1, 39>>, <<66940, 66954, 1, 39>>, <<66956, 66962, 1, 39>>, <<66964, 66965, 1,
    39>>, <<68736, 68786, 1, 64>>, <<71840, 71871, 1, 32>>, <<93760, 93791, 1, 32>>,
    <<125184, 125217, 1, 34>>}

\* the code points beyond ASCII that differ from their simple lower or upper
\* case (re: iscased), as <<first, last, step, 0>>
CasedRanges == {
    <<181, 181, 1, 0>>, <<192, 214, 1, 0>>, <<216, 246, 1, 0>>, <<248, 311, 1, 0>>, <<313,
    396, 1, 0>>, <<398, 410, 1, 0>>, <<412, 425, 1, 0>>, <<428, 441, 1, 0>>, <<444, 445, 1,
    0>>, <<447, 447, 1, 0>>, <<452, 544, 1, 0>>, <<546, 563, 1, 0>>, <<570, 596, 1, 0>>,
    <<598, 599, 1, 0>>, <<601, 603, 2, 0>>, <<604, 604, 1, 0>>, <<608, 609, 1, 0>>, <<611,
    613, 2, 0>>, <<614, 616, 2, 0>>, <<617, 620, 1, 0>>, <<623, 625, 2, 0>>, <<626, 626, 1,
    0>>, <<629, 629, 1, 0>>, <<637, 637, 1, 0>>, <<640, 642, 2, 0>>, <<643, 643, 1, 0>>,
    <<647, 652, 1, 0>>, <<658, 658, 1, 0>>, <<669, 670, 1, 0>>, <<837, 837, 1, 0>>, <<880,
    883, 1, 0>>, <<886, 887, 1, 0>>, <<891, 893, 1, 0>>, <<895, 895, 1, 0>>, <<902, 904, 2,
    0>>, <<905, 906, 1, 0>>, <<908, 910, 2, 0>>, <<911, 929, 1, 0>>, <<931, 977, 1, 0>>,
    <<981, 1013, 1, 0>>, <<1015, 1019, 1, 0>>, <<1021, 1153, 1, 0>>, <<1162, 1327, 1, 0>>,
    <<1329, 1366, 1, 0>>, <<1377, 1415, 1, 0>>, <<4256, 4293, 1, 0>>, <<4295, 4295, 1, 0>>,
    <<4301, 4301, 1, 0>>, <<4304, 4346, 1, 0>>, <<4349, 4351, 1, 0>>, <<5024, 5109, 1, 0>>,
    <<5112, 5117, 1, 0>>, <<7296, 7304, 1, 0>>, <<7312, 7354, 1, 0>>, <<7357, 7359, 1, 0>>,
    <<7545, 7545, 1, 0>>, <<7549, 7549, 1, 0>>, <<7566, 7566, 1, 0>>, <<7680, 7835, 1, 0>>,
    <<7838, 7840, 2, 0>>, <<7841, 7957, 1, 0>>, <<7960, 7965, 1, 0>>, <<7968, 8005, 1, 0>>,
    <<8008, 8013, 1, 0>>, <<8016, 8023, 1, 0>>, <<8025, 8031, 2, 0>>, <<8032, 8061, 1, 0>>,
    <<8064, 8116, 1, 0>>, <<8118, 8124, 1, 0>>, <<8126, 8126, 1, 0>>, <<8130, 8132, 1, 0>>,
    <<8134, 8140, 1, 0>>, <<8144, 8147, 1, 0>>, <<8150, 8155, 1, 0>>, <<8160, 8172, 1, 0>>,
    <<8178, 8180, 1, 0>>, <<8182, 8188, 1, 0>>, <<8486, 8486, 1, 0>>, <<8490, 8491, 1, 0>>,
    <<8498, 8498, 1, 0>>, <<8526, 8526, 1, 0>>, <<8544, 8575, 1, 0>>, <<8579, 8580, 1, 0>>,
    <<9398, 9449, 1, 0>>, <<11264, 11376, 1, 0>>, <<11378, 11379, 1, 0>>, <<11381, 11382, 1,
    0>>, <<11390, 11491, 1, 0>>, <<11499, 11502, 1, 0>>, <<11506, 11507, 1, 0>>, <<11520,
    11557, 1, 0>>, <<11559, 11559, 1, 0>>, <<11565, 11565, 1, 0>>, <<42560, 42605, 1, 0>>,
    <<42624, 42651, 1, 0>>, <<42786, 42799, 1, 0>>, <<42802, 42863, 1, 0>>, <<42873, 42887,
    1, 0>>, <<42891, 42893, 1, 0>>, <<42896, 42900, 1, 0>>, <<42902, 42926, 1, 0>>, <<42928,
    42954, 1, 0>>, <<42960, 42961, 1, 0>>, <<42966, 42969, 1, 0>>, <<42997, 42998, 1, 0>>,
    <<43859, 43859, 1, 0>>, <<43888, 43967, 1, 0>>, <<64256, 64262, 1, 0>>, <<64275, 64279,
    1, 0>>, <<65313, 65338, 1, 0>>, <<65345, 65370, 1, 0>>, <<66560, 66639, 1, 0>>, <<66736,
    66771, 1, 0>>, <<66776, 66811, 1, 0>>, <<66928, 66938, 1, 0>>, <<66940, 66954, 1, 0>>,
    <<66956, 66962, 1, 0>>, <<66964, 66965, 1, 0>>, <<66967, 66977, 1, 0>>, <<66979, 66993,
    1, 0>>, <<66995, 67001, 1, 0>>, <<67003, 67004, 1, 0>>, <<68736, 68786, 1, 0>>, <<68800,
    68850, 1, 0>>, <<71840, 71903, 1, 0>>, <<93760, 93823, 1, 0>>, <<125184, 125251, 1, 0>>}

\* the code points str.lower() skips around a capital sigma (case-ignorable)
CaseIgnorableRanges == {
    <<39, 39, 1, 0>>, <<46, 46, 1, 0>>, <<58, 58, 1, 0>>, <<94, 96, 2, 0>>, <<168, 168, 1,
    0>>, <<173, 175, 2, 0>>, <<180, 180, 1, 0>>, <<183, 184, 1, 0>>, <<688, 879, 1, 0>>,
    <<884, 885, 1, 0>>, <<890, 890, 1, 0>>, <<900, 901, 1, 0>>, <<903, 903, 1, 0>>, <<1155,
    1161, 1, 0>>, <<1369, 1369, 1, 0>>, <<1375, 1375, 1, 0>>, <<1425, 1469, 1, 0>>, <<1471,
    1473, 2, 0>>, <<1474, 1476, 2, 0>>, <<1477, 1479, 2, 0>>, <<1524, 1524, 1, 0>>, <<1536,
    1541, 1, 0>>, <<1552, 1562, 1, 0>>, <<1564, 1564, 1, 0>>, <<1600, 1600, 1, 0>>, <<1611,
    1631, 1, 0>>, <<1648, 1648, 1, 0>>, <<1750, 1757, 1, 0>>, <<1759, 1768, 1, 0>>, <<1770,
    1773, 1, 0>>, <<1807, 1809, 2, 0>>, <<1840, 1866, 1, 0>>, <<1958, 1968, 1, 0>>, <<2027,
    2037, 1, 0>>, <<2042, 2042, 1, 0>>, <<2045, 2045, 1, 0>>, <<2070, 2093, 1, 0>>, <<2137,
    2139, 1, 0>>, <<2184, 2184, 1, 0>>, <<2192, 2193, 1, 0>>, <<2200, 2207, 1, 0>>, <<2249,
    2306, 1, 0>>, <<2362, 2364, 2, 0>>, <<2369, 2376, 1, 0>>, <<2381, 2381, 1, 0>>, <<2385,
    2391, 1, 0>>, <<2402, 2403, 1, 0>>, <<2417, 2417, 1, 0>>, <<2433, 2433, 1, 0>>, <<2492,
    2492, 1, 0>>, <<2497, 2500, 1, 0>>, <<2509, 2509, 1, 0>>, <<2530, 2531, 1, 0>>, <<2558,
    2558, 1, 0>>, <<2561, 2562, 1, 0>>, <<2620, 2620, 1, 0>>, <<2625, 2626, 1, 0>>, <<2631,
    2632, 1, 0>>, <<2635, 2637, 1, 0>>, <<2641, 2641, 1, 0>>, <<2672, 2673, 1, 0>>, <<2677,
    2677, 1, 0>>, <<2689, 2690, 1, 0>>, <<2748, 2748, 1, 0>>, <<2753, 2757, 1, 0>>, <<2759,
    2760, 1, 0>>, <<2765, 2765, 1, 0>>, <<2786, 2787, 1, 0>>, <<2810, 2815, 1, 0>>, <<2817,
    2817, 1, 0>>, <<2876, 2876, 1, 0>>, <<2879, 2881, 2, 0>>, <<2882, 2884, 1, 0>>, <<2893,
    2893, 1, 0>>, <<2901, 2902, 1, 0>>, <<2914, 2915, 1, 0>>, <<2946, 2946, 1, 0>>, <<3008,
    3008, 1, 0>>, <<3021, 3021, 1, 0>>, <<3072, 3072, 1, 0>>, <<3076, 3076, 1, 0>>, <<3132,
    3134, 2, 0>>, <<3135, 3136, 1, 0>>, <<3142, 3144, 1, 0>>, <<3146, 3149, 1, 0>>, <<3157,
    3158, 1, 0>>, <<3170, 3171, 1, 0>>, <<3201, 3201, 1, 0>>, <<3260, 3260, 1, 0>>, <<3263,
    3263, 1, 0>>, <<3270, 3270, 1, 0>>, <<3276, 3277, 1, 0>>, <<3298, 3299, 1, 0>>, <<3328,
    3329, 1, 0>>, <<3387, 3388, 1, 0>>, <<3393, 3396, 1, 0>>, <<3405, 3405, 1, 0>>, <<3426,
    3427, 1, 0>>, <<3457, 3457, 1, 0>>, <<3530, 3530, 1, 0>>, <<3538, 3540, 1, 0>>, <<3542,
    3542, 1, 0>>, <<3633, 3633, 1, 0>>, <<3636, 3642, 1, 0>>, <<3654, 3662, 1, 0>>, <<3761,
    3761, 1, 0>>, <<3764, 3772, 1, 0>>, <<3782, 3784, 2, 0>>, <<3785, 3789, 1, 0>>, <<3864,
    3865, 1, 0>>, <<3893, 3897, 2, 0>>, <<3953, 3966, 1, 0>>, <<3968, 3972, 1, 0>>, <<3974,
    3975, 1, 0>>, <<3981, 3991, 1, 0>>, <<3993, 4028, 1, 0>>, <<4038, 4038, 1, 0>>, <<4141,
    4144, 1, 0>>, <<4146, 4151, 1, 0>>, <<4153, 4154, 1, 0>>, <<4157, 4158, 1, 0>>, <<4184,
    4185, 1, 0>>, <<4190, 4192, 1, 0>>, <<4209, 4212, 1, 0>>, <<4226, 4226, 1, 0>>, <<4229,
    4230, 1, 0>>, <<4237, 4237, 1, 0>>, <<4253, 4253, 1, 0>>, <<4348, 4348, 1, 0>>, <<4957,
    4959, 1, 0>>, <<5906, 5908, 1, 0>>, <<5938, 5939, 1, 0>>, <<5970, 5971, 1, 0>>, <<6002,
    6003, 1, 0>>, <<6068, 6069, 1, 0>>, <<6071, 6077, 1, 0>>, <<6086, 6086, 1, 0>>, <<6089,
    6099, 1, 0>>, <<6103, 6103, 1, 0>>, <<6109, 6109, 1, 0>>, <<6155, 6159, 1, 0>>, <<6211,
    6211, 1, 0>>, <<6277, 6278, 1, 0>>, <<6313, 6313, 1, 0>>, <<6432, 6434, 1, 0>>, <<6439,
    6440, 1, 0>>, <<6450, 6450, 1, 0>>, <<6457, 6459, 1, 0>>, <<6679, 6680, 1, 0>>, <<6683,
    6683, 1, 0>>, <<6742, 6744, 2, 0>>, <<6745, 6750, 1, 0>>, <<6752, 6754, 2, 0>>, <<6757,
    6764, 1, 0>>, <<6771, 6780, 1, 0>>, <<6783, 6783, 1, 0>>, <<6823, 6823, 1, 0>>, <<6832,
    6862, 1, 0>>, <<6912, 6915, 1, 0>>, <<6964, 6966, 2, 0>>, <<6967, 6970, 1, 0>>, <<6972,
    6972, 1, 0>>, <<6978, 6978, 1, 0>>, <<7019, 7027, 1, 0>>, <<7040, 7041, 1, 0>>, <<7074,
    7077, 1, 0>>, <<7080, 7081, 1, 0>>, <<7083, 7085, 1, 0>>, <<7142, 7144, 2, 0>>, <<7145,
    7145, 1, 0>>, <<7149, 7151, 2, 0>>, <<7152, 7153, 1, 0>>, <<7212, 7219, 1, 0>>, <<7222,
    7223, 1, 0>>, <<7288, 7293, 1, 0>>, <<7376, 7378, 1, 0>>, <<7380, 7392, 1, 0>>, <<7394,
    7400, 1, 0>>, <<7405, 7405, 1, 0>>, <<7412, 7412, 1, 0>>, <<7416, 7417, 1, 0>>, <<7468,
    7530, 1, 0>>, <<7544, 7544, 1, 0>>, <<7579, 7679, 1, 0>>, <<8125, 8127, 2, 0>>, <<8128,
    8129, 1, 0>>, <<8141, 8143, 1, 0>>, <<8157, 8159, 1, 0>>, <<8173, 8175, 1, 0>>, <<8189,
    8190, 1, 0>>, <<8203, 8207, 1, 0>>, <<8216, 8217, 1, 0>>, <<8228, 8228, 1, 0>>, <<8231,
    8231, 1, 0>>, <<8234, 8238, 1, 0>>, <<8288, 8292, 1, 0>>, <<8294, 8303, 1, 0>>, <<8305,
    8305, 1, 0>>, <<8319, 8319, 1, 0>>, <<8336, 8348, 1, 0>>, <<8400, 8432, 1, 0>>, <<11388,
    11389, 1, 0>>, <<11503, 11505, 1, 0>>, <<11631, 11631, 1, 0>>, <<11647, 11647, 1, 0>>,
    <<11744, 11775, 1, 0>>, <<11823, 11823, 1, 0>>, <<12293, 12293, 1, 0>>, <<12330, 12333,
    1, 0>>, <<12337, 12341, 1, 0>>, <<12347, 12347, 1, 0>>, <<12441, 12446, 1, 0>>, <<12540,
    12542, 1, 0>>, <<40981, 40981, 1, 0>>, <<42232, 42237, 1, 0>>, <<42508, 42508, 1, 0>>,
    <<42607, 42610, 1, 0>>, <<42612, 42621, 1, 0>>, <<42623, 42623, 1, 0>>, <<42652, 42655,
    1, 0>>, <<42736, 42737, 1, 0>>, <<42752, 42785, 1, 0>>, <<42864, 42864, 1, 0>>, <<42888,
    42890, 1, 0>>, <<42994, 42996, 1, 0>>, <<43000, 43001, 1, 0>>, <<43010, 43010, 1, 0>>,
    <<43014, 43014, 1, 0>>, <<43019, 43019, 1, 0>>, <<43045, 43046, 1, 0>>, <<43052, 43052,
    1, 0>>, <<43204, 43205, 1, 0>>, <<43232, 43249, 1, 0>>, <<43263, 43263, 1, 0>>, <<43302,
    43309, 1, 0>>, <<43335, 43345, 1, 0>>, <<43392, 43394, 1, 0>>, <<43443, 43443, 1, 0>>,
    <<43446, 43449, 1, 0>>, <<43452, 43453, 1, 0>>, <<43471, 43471, 1, 0>>, <<43493, 43494,
    1, 0>>, <<43561, 43566, 1, 0>>, <<43569, 43570, 1, 0>>, <<43573, 43574, 1, 0>>, <<43587,
    43587, 1, 0>>, <<43596, 43596, 1, 0>>, <<43632, 43632, 1, 0>>, <<43644, 43644, 1, 0>>,
    <<43696, 43698, 2, 0>>, <<43699, 43700, 1, 0>>, <<43703, 43704, 1, 0>>, <<43710, 43711,
    1, 0>>, <<43713, 43713, 1, 0>>, <<43741, 43741, 1, 0>>, <<43756, 43757, 1, 0>>, <<43763,
    43764, 1, 0>>, <<43766, 43766, 1, 0>>, <<43867, 43871, 1, 0>>, <<43881, 43883, 1, 0>>,
    <<44005, 44005, 1, 0>>, <<44008, 44008, 1, 0>>, <<44013, 44013, 1, 0>>, <<64286, 64286,
    1, 0>>, <<64434, 64450, 1, 0>>, <<65024, 65039, 1, 0>>, <<65043, 65043, 1, 0>>, <<65056,
    65071, 1, 0>>, <<65106, 65106, 1, 0>>, <<65109, 65109, 1, 0>>, <<65279, 65279, 1, 0>>,
    <<65287, 65287, 1, 0>>, <<65294, 65294, 1, 0>>, <<65306, 65306, 1, 0>>, <<65342, 65344,
    2, 0>>, <<65392, 65392, 1, 0>>, <<65438, 65439, 1, 0>>, <<65507, 65507, 1, 0>>, <<65529,
    65531, 1, 0>>, <<66045, 66045, 1, 0>>, <<66272, 66272, 1, 0>>, <<66422, 66426, 1, 0>>,
    <<67456, 67461, 1, 0>>, <<67463, 67504, 1, 0>>, <<67506, 67514, 1, 0>>, <<68097, 68099,
    1, 0>>, <<68101, 68102, 1, 0>>, <<68108, 68111, 1, 0>>, <<68152, 68154, 1, 0>>, <<68159,
    68159, 1, 0>>, <<68325, 68326, 1, 0>>, <<68900, 68903, 1, 0>>, <<69291, 69292, 1, 0>>,
    <<69446, 69456, 1, 0>>, <<69506, 69509, 1, 0>>, <<69633, 69633, 1, 0>>, <<69688, 69702,
    1, 0>>, <<69744, 69744, 1, 0>>, <<69747, 69748, 1, 0>>, <<69759, 69761, 1, 0>>, <<69811,
    69814, 1, 0>>, <<69817, 69818, 1, 0>>, <<69821, 69821, 1, 0>>, <<69826, 69826, 1, 0>>,
    <<69837, 69837, 1, 0>>, <<69888, 69890, 1, 0>>, <<69927, 69931, 1, 0>>, <<69933, 69940,
    1, 0>>, <<70003, 70003, 1, 0>>, <<70016, 70017, 1, 0>>, <<70070, 70078, 1, 0>>, <<70089,
    70092, 1, 0>>, <<70095, 70095, 1, 0>>, <<70191, 70193, 1, 0>>, <<70196, 70198, 2, 0>>,
    <<70199, 70199, 1, 0>>, <<70206, 70206, 1, 0>>, <<70367, 70367, 1, 0>>, <<70371, 70378,
    1, 0>>, <<70400, 70401, 1, 0>>, <<70459, 70460, 1, 0>>, <<70464, 70464, 1, 0>>, <<70502,
    70508, 1, 0>>, <<70512, 70516, 1, 0>>, <<70712, 70719, 1, 0>>, <<70722, 70724, 1, 0>>,
    <<70726, 70726, 1, 0>>, <<70750, 70750, 1, 0>>, <<70835, 70840, 1, 0>>, <<70842, 70842,
    1, 0>>, <<70847, 70848, 1, 0>>, <<70850, 70851, 1, 0>>, <<71090, 71093, 1, 0>>, <<71100,
    71101, 1, 0>>, <<71103, 71104, 1, 0>>, <<71132, 71133, 1, 0>>, <<71219, 71226, 1, 0>>,
    <<71229, 71231, 2, 0>>, <<71232, 71232, 1, 0>>, <<71339, 71341, 2, 0>>, <<71344, 71349,
    1, 0>>, <<71351, 71351, 1, 0>>, <<71453, 71455, 1, 0>>, <<71458, 71461, 1, 0>>, <<71463,
    71467, 1, 0>>, <<71727, 71735, 1, 0>>, <<71737, 71738, 1, 0>>, <<71995, 71996, 1, 0>>,
    <<71998, 71998, 1, 0>>, <<72003, 72003, 1, 0>>, <<72148, 72151, 1, 0>>, <<72154, 72155,
    1, 0>>, <<72160, 72160, 1, 0>>, <<72193, 72202, 1, 0>>, <<72243, 72248, 1, 0>>, <<72251,
    72254, 1, 0>>, <<72263, 72263, 1, 0>>, <<72273, 72278, 1, 0>>, <<72281, 72283, 1, 0>>,
    <<72330, 72342, 1, 0>>, <<72344, 72345, 1, 0>>, <<72752, 72758, 1, 0>>, <<72760, 72765,
    1, 0>>, <<72767, 72767, 1, 0>>, <<72850, 72871, 1, 0>>, <<72874, 72880, 1, 0>>, <<72882,
    72883, 1, 0>>, <<72885, 72886, 1, 0>>, <<73009, 73014, 1, 0>>, <<73018, 73020, 2, 0>>,
    <<73021, 73023, 2, 0>>, <<73024, 73029, 1, 0>>, <<73031, 73031, 1, 0>>, <<73104, 73105,
    1, 0>>, <<73109, 73111, 2, 0>>, <<73459, 73460, 1, 0>>, <<78896, 78904, 1, 0>>, <<92912,
    92916, 1, 0>>, <<92976, 92982, 1, 0>>, <<92992, 92995, 1, 0>>, <<94031, 94031, 1, 0>>,
    <<94095, 94111, 1, 0>>, <<94176, 94177, 1, 0>>, <<94179, 94180, 1, 0>>, <<110576,
    110579, 1, 0>>, <<110581, 110587, 1, 0>>, <<110589, 110590, 1, 0>>, <<113821, 113822, 1,
    0>>, <<113824, 113827, 1, 0>>, <<118528, 118573, 1, 0>>, <<118576, 118598, 1, 0>>,
    <<119143, 119145, 1, 0>>, <<119155, 119170, 1, 0>>, <<119173, 119179, 1, 0>>, <<119210,
    119213, 1, 0>>, <<119362, 119364, 1, 0>>, <<121344, 121398, 1, 0>>, <<121403, 121452, 1,
    0>>, <<121461, 121461, 1, 0>>, <<121476, 121476, 1, 0>>, <<121499, 121503, 1, 0>>,
    <<121505, 121519, 1, 0>>, <<122880, 122886, 1, 0>>, <<122888, 122904, 1, 0>>, <<122907,
    122913, 1, 0>>, <<122915, 122916, 1, 0>>, <<122918, 122922, 1, 0>>, <<123184, 123197, 1,
    0>>, <<123566, 123566, 1, 0>>, <<123628, 123631, 1, 0>>, <<125136, 125142, 1, 0>>,
    <<125252, 125259, 1, 0>>, <<127995, 127999, 1, 0>>, <<917505, 917505, 1, 0>>, <<917536,
    917631, 1, 0>>, <<917760, 917999, 1, 0>>}

\* the code points that are cased and not case-ignorable
SigmaCasedRanges == {
    <<65, 90, 1, 0>>, <<97, 122, 1, 0>>, <<170, 170, 1, 0>>, <<181, 181, 1, 0>>, <<186, 186,
    1, 0>>, <<192, 214, 1, 0>>, <<216, 246, 1, 0>>, <<248, 442, 1, 0>>, <<444, 447, 1, 0>>,
    <<452, 659, 1, 0>>, <<661, 687, 1, 0>>, <<880, 883, 1, 0>>, <<886, 887, 1, 0>>, <<891,
    893, 1, 0>>, <<895, 895, 1, 0>>, <<902, 904, 2, 0>>, <<905, 906, 1, 0>>, <<908, 910, 2,
    0>>, <<911, 929, 1, 0>>, <<931, 1013, 1, 0>>, <<1015, 1153, 1, 0>>, <<1162, 1327, 1,
    0>>, <<1329, 1366, 1, 0>>, <<1376, 1416, 1, 0>>, <<4256, 4293, 1, 0>>, <<4295, 4295, 1,
    0>>, <<4301, 4301, 1, 0>>, <<4304, 4346, 1, 0>>, <<4349, 4351, 1, 0>>, <<5024, 5109, 1,
    0>>, <<5112, 5117, 1, 0>>, <<7296, 7304, 1, 0>>, <<7312, 7354, 1, 0>>, <<7357, 7359, 1,
    0>>, <<7424, 7467, 1, 0>>, <<7531, 7543, 1, 0>>, <<7545, 7578, 1, 0>>, <<7680, 7957, 1,
    0>>, <<7960, 7965, 1, 0>>, <<7968, 8005, 1, 0>>, <<8008, 8013, 1, 0>>, <<8016, 8023, 1,
    0>>, <<8025, 8031, 2, 0>>, <<8032, 8061, 1, 0>>, <<8064, 8116, 1, 0>>, <<8118, 8124, 1,
    0>>, <<8126, 8126, 1, 0>>, <<8130, 8132, 1, 0>>, <<8134, 8140, 1, 0>>, <<8144, 8147, 1,
    0>>, <<8150, 8155, 1, 0>>, <<8160, 8172, 1, 0>>, <<8178, 8180, 1, 0>>, <<8182, 8188, 1,
    0>>, <<8450, 8450, 1, 0>>, <<8455, 8455, 1, 0>>, <<8458, 8467, 1, 0>>, <<8469, 8469, 1,
    0>>, <<8473, 8477, 1, 0>>, <<8484, 8490, 2, 0>>, <<8491, 8493, 1, 0>>, <<8495, 8500, 1,
    0>>, <<8505, 8505, 1, 0>>, <<8508, 8511, 1, 0>>, <<8517, 8521, 1, 0>>, <<8526, 8526, 1,
    0>>, <<8544, 8575, 1, 0>>, <<8579, 8580, 1, 0>>, <<9398, 9449, 1, 0>>, <<11264, 11387,
    1, 0>>, <<11390, 11492, 1, 0>>, <<11499, 11502, 1, 0>>, <<11506, 11507, 1, 0>>, <<11520,
    11557, 1, 0>>, <<11559, 11559, 1, 0>>, <<11565, 11565, 1, 0>>, <<42560, 42605, 1, 0>>,
    <<42624, 42651, 1, 0>>, <<42786, 42863, 1, 0>>, <<42865, 42887, 1, 0>>, <<42891, 42894,
    1, 0>>, <<42896, 42954, 1, 0>>, <<42960, 42961, 1, 0>>, <<42963, 42965, 2, 0>>, <<42966,
    42969, 1, 0>>, <<42997, 42998, 1, 0>>, <<43002, 43002, 1, 0>>, <<43824, 43866, 1, 0>>,
    <<43872, 43880, 1, 0>>, <<43888, 43967, 1, 0>>, <<64256, 64262, 1, 0>>, <<64275, 64279,
    1, 0>>, <<65313, 65338, 1, 0>>, <<65345, 65370, 1, 0>>, <<66560, 66639, 1, 0>>, <<66736,
    66771, 1, 0>>, <<66776, 66811, 1, 0>>, <<66928, 66938, 1, 0>>, <<66940, 66954, 1, 0>>,
    <<66956, 66962, 1, 0>>, <<66964, 66965, 1, 0>>, <<66967, 66977, 1, 0>>, <<66979, 66993,
    1, 0>>, <<66995, 67001, 1, 0>>, <<67003, 67004, 1, 0>>, <<68736, 68786, 1, 0>>, <<68800,
    68850, 1, 0>>, <<71840, 71903, 1, 0>>, <<93760, 93823, 1, 0>>, <<119808, 119892, 1, 0>>,
    <<119894, 119964, 1, 0>>, <<119966, 119967, 1, 0>>, <<119970, 119970, 1, 0>>, <<119973,
    119974, 1, 0>>, <<119977, 119980, 1, 0>>, <<119982, 119993, 1, 0>>, <<119995, 119997, 2,
    0>>, <<119998, 120003, 1, 0>>, <<120005, 120069, 1, 0>>, <<120071, 120074, 1, 0>>,
    <<120077, 120084, 1, 0>>, <<120086, 120092, 1, 0>>, <<120094, 120121, 1, 0>>, <<120123,
    120126, 1, 0>>, <<120128, 120132, 1, 0>>, <<120134, 120134, 1, 0>>, <<120138, 120144, 1,
    0>>, <<120146, 120485, 1, 0>>, <<120488, 120512, 1, 0>>, <<120514, 120538, 1, 0>>,
    <<120540, 120570, 1, 0>>, <<120572, 120596, 1, 0>>, <<120598, 120628, 1, 0>>, <<120630,
    120654, 1, 0>>, <<120656, 120686, 1, 0>>, <<120688, 120712, 1, 0>>, <<120714, 120744, 1,
    0>>, <<120746, 120770, 1, 0>>, <<120772, 120779, 1, 0>>, <<122624, 122633, 1, 0>>,
    <<122635, 122654, 1, 0>>, <<125184, 125251, 1, 0>>, <<127280, 127305, 1, 0>>, <<127312,
    127337, 1, 0>>, <<127344, 127369, 1, 0>>}


\* re's extra cases: lower-case code points that IGNORECASE takes for one
ExtraCases == {
    {105, 305}, {115, 383}, {181, 956}, {837, 953, 8126}, {912, 8147}, {944, 8163},
    {946, 976}, {949, 1013}, {952, 977}, {954, 1008}, {960, 982}, {961, 1009},
    {962, 963}, {966, 981}, {1074, 7296}, {1076, 7297}, {1086, 7298}, {1089, 7299},
    {1090, 7300, 7301}, {1098, 7302}, {1123, 7303}, {7304, 42571}, {7777, 7835},
    {64261, 64262}}

\* is code point cp one of first, first + step, ... last of a range of the table
InRanges(cp, table) ==
    \E r \in table : r[1] <= cp /\ cp <= r[2] /\ (cp - r[1]) % r[3] = 0

\* str.lower() on an ASCII character
AsciiLower(c) ==
    IF c \in UpperSet
    THEN LowerSeq[CHOOSE i \in 1..Len(UpperSeq) : UpperSeq[i] = c]
    ELSE c

\* the simple lower case of a code point beyond ASCII
SimpleLowerCode(cp) ==
    IF InRanges(cp, LowerRanges)
    THEN cp + (CHOOSE r \in LowerRanges :
                   r[1] <= cp /\ cp <= r[2] /\ (cp - r[1]) % r[3] = 0)[4]
    ELSE cp

\* the lower case of one character as re takes it (one character always)
ReLower(c) ==
    IF Len(c) = 1 THEN AsciiLower(c) ELSE CharOf(SimpleLowerCode(CodePoint(c)))

\* does re take the character for cased
ReCased(c) ==
    IF Len(c) = 1 THEN c \in UpperSet \cup LowerSet
    ELSE InRanges(CodePoint(c), CasedRanges)

CAPITAL_SIGMA == "U+03A3"
CAPITAL_I_DOT == "U+0130"

\* str.lower() of the one-character string c: a string of one character, of
\* two for the capital I with dot
LowerChar(c) ==
    IF Len(c) = 1 THEN <<AsciiLower(c)>>
    ELSE IF c = CAPITAL_I_DOT THEN <<"i", "U+0307">>
    ELSE <<CharOf(SimpleLowerCode(CodePoint(c)))>>

CaseIgnorable(c) ==
    IF Len(c) = 1 \/ c = GRAVE THEN c \in {"'", ".", ":", "^", GRAVE}
    ELSE InRanges(CodePoint(c), CaseIgnorableRanges)

SigmaCased(c) ==
    IF Len(c) = 1 THEN c \in UpperSet \cup LowerSet
    ELSE InRanges(CodePoint(c), SigmaCasedRanges)

\* is the capital sigma at position i of s in final position: after a cased
\* character and not before one, case-ignorable characters skipped
FinalSigma(s, i) ==
    LET before == {j \in 1..(i - 1) : ~CaseIgnorable(s[j])}
        after == {j \in (i + 1)..Len(s) : ~CaseIgnorable(s[j])}
    IN  /\ before /= {}
        /\ SigmaCased(s[CHOOSE j \in before : \A k \in before : k <= j])
        /\ after = {} \/ ~SigmaCased(s[CHOOSE j \in after : \A k \in after : j <= k])

\* what str.lower() makes of the character at position i of s
LowerAt(s, i) ==
    IF s[i] = CAPITAL_SIGMA
    THEN <<IF FinalSigma(s, i) THEN "U+03C2" ELSE "U+03C3">>
    ELSE LowerChar(s[i])

\* the strings of a sequence, one after the other
RECURSIVE Flatten(_)
Flatten(parts) == IF parts = <<>> THEN <<>> ELSE parts[1] \o Flatten(Tail(parts))

\* str.lower()
StrLower(s) ==
    IF \A i \in 1..Len(s) : Len(s[i]) = 1
    THEN [i \in 1..Len(s) |-> AsciiLower(s[i])]
    ELSE IF \E i \in 1..Len(s) : s[i] = CAPITAL_I_DOT
         THEN Flatten([i \in 1..Len(s) |-> LowerAt(s, i)])
         ELSE [i \in 1..Len(s) |-> LowerAt(s, i)[1]]

\* the characters str.strip(), str.split() and \s of a pattern treat as
\* whitespace
Whitespace == {" ", "\t", "\n", "\r", "\f", "U+000B", "U+001C", "U+001D", "U+001E",
               "U+001F", "U+0085", "U+00A0", "U+1680", "U+2000", "U+2001", "U+2002",
               "U+2003", "U+2004", "U+2005", "U+2006", "U+2007", "U+2008", "U+2009",
               "U+200A", "U+2028", "U+2029", "U+202F", "U+205F", "U+3000"}

\* length of the longest prefix of s made of characters of set cs
RECURSIVE PrefixRun(_, _)
PrefixRun(s, cs) ==
    IF s = <<>> \/ s[1] \notin cs THEN 0 ELSE 1 + PrefixRun(Tail(s), cs)

\* length of the longest suffix of s made of characters of set cs
RECURSIVE SuffixRun(_, _)
SuffixRun(s, cs) ==
    IF s = <<>> \/ s[Len(s)] \notin cs
    THEN 0
    ELSE 1 + SuffixRun(SubSeq(s, 1, Len(s) - 1), cs)

\* s without its leading run of cs and, in what is left, its trailing run
TrimSet(s, cs) ==
    LET a == SubSeq(s, PrefixRun(s, cs) + 1, Len(s))
    IN  SubSeq(a, 1, Len(a) - SuffixRun(a, cs))

\* str.strip()
StrStrip(s) == TrimSet(s, Whitespace)

\* ' '.join(s.split()): whitespace runs become one space, none at the ends
RECURSIVE JoinSplit(_)
JoinSplit(s) ==
    LET t == SubSeq(s, PrefixRun(s, Whitespace) + 1, Len(s))
        w == PrefixRun(t, {c \in {t[i] : i \in 1..Len(t)} : c \notin Whitespace})
        rest == JoinSplit(SubSeq(t, w + 1, Len(t)))
    IN  IF t = <<>> THEN <<>>
        ELSE IF rest = <<>> THEN SubSeq(t, 1, w)
        ELSE SubSeq(t, 1, w) \o <<" ">> \o rest

(***************************************************************************)
(* normalize_quote                                                         *)
(***************************************************************************)
\* the character class of the boundary-punctuation regex
BoundaryPunct == {".", ",", ";", ":", "!", "?", "-", ENDASH, EMDASH}

\* re.sub(r'^[P]+|[P]+$', '', s): the leading run and the trailing run go
StripBoundaryPunct(s) == TrimSet(s, BoundaryPunct)

\* re.sub(r'\.{2,}|(U+2026)', '...', s), scanning left to right
RECURSIVE UnifyEllipsis(_)
UnifyEllipsis(s) ==
    LET dots == PrefixRun(s, {"."})
    IN  IF s = <<>> THEN <<>>
        ELSE IF dots >= 2
             THEN <<".", ".", ".">> \o UnifyEllipsis(SubSeq(s, dots + 1, Len(s)))
        ELSE IF s[1] = HELLIP
             THEN <<".", ".", ".">> \o UnifyEllipsis(Tail(s))
        ELSE <<s[1]>> \o UnifyEllipsis(Tail(s))

normalize_quote(quote) ==
    UnifyEllipsis(JoinSplit(StripBoundaryPunct(StrLower(StrStrip(quote)))))

(***************************************************************************)
(* Regular expressions (Python's re, backtracking, leftmost match)         *)
(*                                                                         *)
(* A pattern is a sequence of nodes; the patterns below are the parse      *)
(* trees of the source's pattern strings.  Offsets are 0-based as in       *)
(* Python: the character at offset i of s is s[i + 1].                     *)
(***************************************************************************)
LDQUO == "U+201C"
RDQUO == "U+201D"
LSQUO == "U+2018"
RSQUO == "U+2019"
LAQUO == "U+00AB"
RAQUO == "U+00BB"

Str(s) == [op |-> "str", s |-> Chars(s)]
\* a character class; cased: has it a cased member (re then compares lower
\* cases under IGNORECASE)
In(cs) == [op |-> "in", neg |-> FALSE, cs |-> cs, cased |-> \E x \in cs : ReCased(x)]
NotIn(cs) == [op |-> "in", neg |-> TRUE, cs |-> cs, cased |-> \E x \in cs : ReCased(x)]
Rep(lo, hi, r) == [op |-> "rep", lo |-> lo, hi |-> hi, r |-> r]
Alt(rs) == [op |-> "alt", rs |-> rs]
Grp(n, r) == [op |-> "grp", n |-> n, r |-> r]
\* re.escape(pattern_lower) inside a figure-anchored pattern
Alias == [op |-> "alias"]

\* the most capture groups any pattern of the source has
MaxGroups == 3

NoMatch == [start |-> -1, end |-> -1, caps |-> <<>>]
NoCaps == [g \in 1..MaxGroups |-> <<-1, -1>>]

\* does character c of a text match the literal x of a pattern under
\* re.IGNORECASE: an uncased x matches itself only; for a cased x the lower
\* case of c is that of x or one of its extra cases
IcEq(c, x) ==
    IF Len(c) = 1 /\ Len(x) = 1 THEN AsciiLower(c) = AsciiLower(x)
    ELSE IF ~ReCased(x) THEN c = x
    ELSE \/ ReLower(c) = ReLower(x)
         \/ \E g \in ExtraCases :
                CodePoint(ReLower(c)) \in g /\ CodePoint(ReLower(x)) \in g

\* does literal lit occur in s at offset i (ic: re.IGNORECASE)
StrAt(s, i, lit, ic) ==
    /\ i + Len(lit) <= Len(s)
    /\ \A k \in 1..Len(lit) :
          IF ic THEN IcEq(s[i + k], lit[k]) ELSE s[i + k] = lit[k]

\* does the lower case l of a character meet member x of a class that has
\* cased members, under re.IGNORECASE
IcMember(l, x) ==
    IF ~ReCased(x) THEN l = x
    ELSE \/ l = ReLower(x)
         \/ \E g \in ExtraCases : CodePoint(l) \in g /\ CodePoint(ReLower(x)) \in g

\* does character c belong to the class of node n
InClass(c, n, ic) ==
    LET hit == IF ic /\ n.cased
               THEN \E x \in n.cs : IcMember(ReLower(c), x)
               ELSE c \in n.cs
    IN  hit /= n.neg

\* the number of characters from offset i on that belong to class n, at most hi
RECURSIVE RunLen(_, _, _, _, _)
RunLen(s, i, n, ic, hi) ==
    IF hi = 0 \/ i >= Len(s) \/ ~InClass(s[i + 1], n, ic)
    THEN 0
    ELSE 1 + RunLen(s, i + 1, n, ic, IF hi < 0 THEN hi ELSE hi - 1)

\* the match m when it succeeded, otherwise what the next alternative gives
OrElse(m, alternative) == IF m.end >= 0 THEN m ELSE alternative

RECURSIVE ReMatch(_, _, _, _, _, _)
RECURSIVE ReBacktrack(_, _, _, _, _, _, _, _)
RECURSIVE ReAlt(_, _, _, _, _, _, _, _)

\* match the node sequence rs at offset i: the first success in
\* backtracking order, as [end, caps], or NoMatch
ReMatch(rs, s, i, caps, ic, alias) ==
    IF Len(rs) = 0 THEN [start |-> i, end |-> i, caps |-> caps]
    ELSE
    LET n == rs[1]
        rest == Tail(rs)
    IN  CASE n.op = "str" ->
               IF StrAt(s, i, n.s, ic)
               THEN ReMatch(rest, s, i + Len(n.s), caps, ic, alias)
               ELSE NoMatch
          [] n.op = "alias" ->
               IF StrAt(s, i, alias, ic)
               THEN ReMatch(rest, s, i + Len(alias), caps, ic, alias)
               ELSE NoMatch
          [] n.op = "in" ->
               IF i < Len(s) /\ InClass(s[i + 1], n, ic)
               THEN ReMatch(rest, s, i + 1, caps, ic, alias)
               ELSE NoMatch
          [] n.op = "grp" ->
               ReMatch(n.r \o <<[op |-> "endgrp", n |-> n.n, from |-> i]>> \o rest,
                       s, i, caps, ic, alias)
          [] n.op = "endgrp" ->
               ReMatch(rest, s, i, [caps EXCEPT ![n.n] = <<n.from, i>>], ic, alias)
          [] n.op = "alt" ->
               ReAlt(n.rs, 1, rest, s, i, caps, ic, alias)
          [] n.op = "rep" ->
               IF Len(n.r) = 1 /\ n.r[1].op = "in"
               THEN \* greedy run of one class, given back one character at a time
                    ReBacktrack(RunLen(s, i, n.r[1], ic, n.hi), n.lo, rest,
                                s, i, caps, ic, alias)
               ELSE \* greedy: one more round of the body first, then none
                    LET less == [n EXCEPT !.lo = IF n.lo > 0 THEN n.lo - 1 ELSE 0,
                                          !.hi = IF n.hi < 0 THEN n.hi ELSE n.hi - 1]
                    IN  OrElse(IF n.hi = 0 THEN NoMatch
                               ELSE ReMatch(n.r \o <<less>> \o rest, s, i, caps, ic, alias),
                               IF n.lo = 0 THEN ReMatch(rest, s, i, caps, ic, alias)
                               ELSE NoMatch)

ReBacktrack(k, lo, rest, s, i, caps, ic, alias) ==
    IF k < lo THEN NoMatch
    ELSE OrElse(ReMatch(rest, s, i + k, caps, ic, alias),
                ReBacktrack(k - 1, lo, rest, s, i, caps, ic, alias))

ReAlt(branches, b, rest, s, i, caps, ic, alias) ==
    IF b > Len(branches) THEN NoMatch
    ELSE OrElse(ReMatch(branches[b] \o rest, s, i, caps, ic, alias),
                ReAlt(branches, b + 1, rest, s, i, caps, ic, alias))

\* the match m, when it succeeded, as a match that starts at offset pos
StartingAt(m, pos) == IF m.end >= 0 THEN [m EXCEPT !.start = pos] ELSE m

\* of the matches hits, one per start offset, the leftmost; NoMatch when none
Leftmost(hits) ==
    IF hits = {} THEN NoMatch
    ELSE CHOOSE m \in hits : \A o \in hits : m.start <= o.start

\* re.search from offset pos on: the match at the leftmost offset at which
\* the pattern matches, or NoMatch
re_search_from(rs, s, pos, ic, alias) ==
    Leftmost({m \in {StartingAt(ReMatch(rs, s, p, NoCaps, ic, alias), p) : p \in pos..Len(s)} :
                 m.end >= 0})

re_search(rs, s, ic, alias) == re_search_from(rs, s, 0, ic, alias)

\* re.finditer: the successive non-overlapping matches, left to right
RECURSIVE re_finditer_from(_, _, _, _, _)
RECURSIVE MatchesAfter(_, _, _, _, _)

\* the match m and the matches that follow it: the scan goes on at the end
\* of m, one character further when m is empty
MatchesAfter(rs, s, m, ic, alias) ==
    IF m.end < 0 THEN <<>>
    ELSE <<m>> \o re_finditer_from(rs, s, IF m.end > m.start THEN m.end ELSE m.end + 1,
                                   ic, alias)

re_finditer_from(rs, s, pos, ic, alias) ==
    MatchesAfter(rs, s, re_search_from(rs, s, pos, ic, alias), ic, alias)

re_finditer(rs, s, ic) == re_finditer_from(rs, s, 0, ic, <<>>)

\* the capture groups a pattern declares
RECURSIVE GroupCount(_)
GroupCount(rs) ==
    IF Len(rs) = 0 THEN 0
    ELSE LET n == rs[1]
             here == CASE n.op = "grp" -> 1 + GroupCount(n.r)
                       [] n.op = "rep" -> GroupCount(n.r)
                       [] n.op = "alt" ->
                            LET RECURSIVE Sum(_)
                                Sum(k) == IF k = 0 THEN 0
                                          ELSE GroupCount(n.rs[k]) + Sum(k - 1)
                            IN  Sum(Len(n.rs))
                       [] OTHER -> 0
         IN  here + GroupCount(Tail(rs))

(***************************************************************************)
(* The pattern tables of the source, as parse trees                        *)
(***************************************************************************)
QUOTE_PATTERNS == <<
    <<Alt(<<<<Str("said")>>, <<Str("wrote")>>, <<Str("declared")>>, <<Str("stated")>>,
        <<Str("observed")>>, <<Str("noted")>>, <<Str("remarked")>>, <<Str("proclaimed")>>,
        <<Str("quoted")>>>>), Rep(0, -1, <<In(Whitespace)>>), Rep(0, 1, <<In({":", ","})>>),
        Rep(0, -1, <<In(Whitespace)>>), In({"\"", "'"}), Grp(1, <<Rep(15, 300, <<NotIn({"\"",
        "'"})>>)>>), In({"\"", "'"})>>,
    <<Alt(<<<<Str("once said")>>, <<Str("famously said")>>, <<Str("once wrote")>>,
        <<Str("famously wrote")>>, <<Str("has said")>>, <<Str("had said")>>>>), Rep(0, -1,
        <<In(Whitespace)>>), Rep(0, 1, <<In({":", ","})>>), Rep(0, -1, <<In(Whitespace)>>),
        In({"\"", "'"}), Grp(1, <<Rep(15, 300, <<NotIn({"\"", "'"})>>)>>), In({"\"", "'"})>>,
    <<Str("words "), Alt(<<<<Str("of")>>, <<Str("from")>>>>), Rep(0, -1, <<NotIn({":", "\"",
        "'"})>>), In({":", ","}), Rep(0, -1, <<In(Whitespace)>>), In({"\"", "'"}), Grp(1,
        <<Rep(15, 300, <<NotIn({"\"", "'"})>>)>>), In({"\"", "'"})>>,
    <<Str("as"), Rep(1, 50, <<NotIn({":", "\"", "'"})>>), Str("put it"), Rep(0, 1, <<In({":",
        ","})>>), Rep(0, -1, <<In(Whitespace)>>), In({"\"", "'"}), Grp(1, <<Rep(15, 300,
        <<NotIn({"\"", "'"})>>)>>), In({"\"", "'"})>>,
    <<Str("quot"), Alt(<<<<Str("ing")>>, <<Str("ed")>>>>), Rep(0, -1, <<NotIn({":", "\"",
        "'"})>>), Rep(0, 1, <<In({":", ","})>>), Rep(0, -1, <<In(Whitespace)>>), In({"\"",
        "'"}), Grp(1, <<Rep(15, 300, <<NotIn({"\"", "'"})>>)>>), In({"\"", "'"})>>,
    <<Str("to quote"), Rep(0, -1, <<NotIn({":", "\"", "'"})>>), Rep(0, 1, <<In({":", ","})>>),
        Rep(0, -1, <<In(Whitespace)>>), In({"\"", "'"}), Grp(1, <<Rep(15, 300, <<NotIn({"\"",
        "'"})>>)>>), In({"\"", "'"})>>,
    <<Str("reminded us"), Rep(0, -1, <<NotIn({":", "\"", "'"})>>), Rep(0, 1, <<In({":",
        ","})>>), Rep(0, -1, <<In(Whitespace)>>), In({"\"", "'"}), Grp(1, <<Rep(15, 300,
        <<NotIn({"\"", "'"})>>)>>), In({"\"", "'"})>>,
    <<Alt(<<<<Str("called for")>>, <<Str("urged")>>, <<Str("appealed")>>>>), Rep(0, -1,
        <<NotIn({":", "\"", "'"})>>), Rep(0, 1, <<In({":", ","})>>), Rep(0, -1,
        <<In(Whitespace)>>), In({"\"", "'"}), Grp(1, <<Rep(15, 300, <<NotIn({"\"", "'"})>>)>>),
        In({"\"", "'"})>>
>>

STANDALONE_PATTERNS == <<
    <<Alt(<<<<Str("Charter")>>, <<Str("preamble")>>>>), Rep(0, -1, <<NotIn({"\"", "'"})>>),
        Rep(0, 1, <<In({":", ","})>>), Rep(0, -1, <<In(Whitespace)>>), In({"\"", "'"}), Grp(1,
        <<Rep(20, 300, <<NotIn({"\"", "'"})>>)>>), In({"\"", "'"})>>,
    <<Str("according to"), Rep(0, -1, <<NotIn({"\"", "'"})>>), Rep(0, 1, <<In({":", ","})>>),
        Rep(0, -1, <<In(Whitespace)>>), In({"\"", "'"}), Grp(1, <<Rep(15, 300, <<NotIn({"\"",
        "'"})>>)>>), In({"\"", "'"})>>
>>

name_patterns == <<
    <<Grp(1, <<In(UpperSet), Rep(1, -1, <<In(LowerSet)>>), Str(" "), In(UpperSet), Rep(1, -1,
        <<In(LowerSet)>>)>>), Str(" "), Alt(<<<<Str("said")>>, <<Str("wrote")>>,
        <<Str("declared")>>, <<Str("stated")>>, <<Str("once said")>>>>)>>,
    <<Alt(<<<<Str("President")>>, <<Str("Secretary-General")>>, <<Str("Prime Minister")>>,
        <<Str("Pope")>>, <<Str("Dr.")>>, <<Str("Mr.")>>, <<Str("Mrs.")>>, <<Str("Ms.")>>>>),
        Str(" "), Grp(1, <<In(UpperSet), Rep(1, -1, <<In(LowerSet)>>), Rep(0, 1, <<Rep(1, -1,
        <<In(Whitespace)>>), In(UpperSet), Rep(1, -1, <<In(LowerSet)>>)>>)>>)>>,
    <<Grp(1, <<In(UpperSet), Rep(1, -1, <<In(LowerSet)>>), Str(" "), In(UpperSet), Rep(1, -1,
        <<In(LowerSet)>>), Str(" "), In(UpperSet), Rep(1, -1, <<In(LowerSet)>>)>>), Str(" "),
        Alt(<<<<Str("said")>>, <<Str("wrote")>>>>)>>,
    <<Str("words of "), Grp(1, <<In(UpperSet), Rep(1, -1, <<In(LowerSet)>>), Rep(0, 1, <<Rep(1,
        -1, <<In(Whitespace)>>), In(UpperSet), Rep(1, -1, <<In(LowerSet)>>)>>)>>)>>,
    <<Str("quoting "), Grp(1, <<In(UpperSet), Rep(1, -1, <<In(LowerSet)>>), Rep(0, 1, <<Rep(1,
        -1, <<In(Whitespace)>>), In(UpperSet), Rep(1, -1, <<In(LowerSet)>>)>>)>>)>>
>>

attribution_patterns == <<
    [regex |-> <<Alias, Rep(1, -1, <<In(Whitespace)>>), Rep(0, 1, <<Grp(1, <<Str("once"),
        Rep(1, -1, <<In(Whitespace)>>)>>)>>), Str("said"), Rep(0, 1, <<In({",", ":", ".",
        ";"})>>), Rep(0, -1, <<In(Whitespace)>>), In({"\"", "'", LDQUO, LSQUO, LAQUO}), Grp(2,
        <<Rep(10, 500, <<NotIn({"\"", "'", LDQUO, RDQUO, LSQUO, RSQUO, LAQUO, RAQUO})>>)>>),
        In({"\"", "'", RDQUO, RSQUO, RAQUO})>>,
       score |-> 95, quote_group |-> 2],
    [regex |-> <<Alias, Rep(1, -1, <<In(Whitespace)>>), Rep(0, 1, <<Grp(1, <<Str("once"),
        Rep(1, -1, <<In(Whitespace)>>)>>)>>), Str("wrote"), Rep(0, 1, <<In({",", ":", ".",
        ";"})>>), Rep(0, -1, <<In(Whitespace)>>), In({"\"", "'", LDQUO, LSQUO, LAQUO}), Grp(2,
        <<Rep(10, 500, <<NotIn({"\"", "'", LDQUO, RDQUO, LSQUO, RSQUO, LAQUO, RAQUO})>>)>>),
        In({"\"", "'", RDQUO, RSQUO, RAQUO})>>,
       score |-> 95, quote_group |-> 2],
    [regex |-> <<Str("said"), Rep(1, -1, <<In(Whitespace)>>), Alias, Rep(0, 1, <<In({",", ":",
        ".", ";"})>>), Rep(0, -1, <<In(Whitespace)>>), In({"\"", "'", LDQUO, LSQUO, LAQUO}),
        Grp(1, <<Rep(10, 500, <<NotIn({"\"", "'", LDQUO, RDQUO, LSQUO, RSQUO, LAQUO,
        RAQUO})>>)>>), In({"\"", "'", RDQUO, RSQUO, RAQUO})>>,
       score |-> 90, quote_group |-> 1],
    [regex |-> <<Str("as"), Rep(1, -1, <<In(Whitespace)>>), Alias, Rep(1, -1,
        <<In(Whitespace)>>), Rep(0, 1, <<Grp(1, <<Str("once"), Rep(1, -1,
        <<In(Whitespace)>>)>>)>>), Grp(2, <<Alt(<<<<Str("said")>>, <<Str("wrote")>>,
        <<Str("put it")>>>>)>>), Rep(0, 1, <<In({",", ":", ".", ";"})>>), Rep(0, -1,
        <<In(Whitespace)>>), In({"\"", "'", LDQUO, LSQUO, LAQUO}), Grp(3, <<Rep(10, 500,
        <<NotIn({"\"", "'", LDQUO, RDQUO, LSQUO, RSQUO, LAQUO, RAQUO})>>)>>), In({"\"", "'",
        RDQUO, RSQUO, RAQUO})>>,
       score |-> 95, quote_group |-> 3],
    [regex |-> <<Str("in the words of"), Rep(1, -1, <<In(Whitespace)>>), Alias, Rep(0, 1,
        <<In({",", ":", ".", ";"})>>), Rep(0, -1, <<In(Whitespace)>>), In({"\"", "'", LDQUO,
        LSQUO, LAQUO}), Grp(1, <<Rep(10, 500, <<NotIn({"\"", "'", LDQUO, RDQUO, LSQUO, RSQUO,
        LAQUO, RAQUO})>>)>>), In({"\"", "'", RDQUO, RSQUO, RAQUO})>>,
       score |-> 95, quote_group |-> 1],
    [regex |-> <<Alias, Rep(1, -1, <<In(Whitespace)>>), Str("famously"), Rep(1, -1,
        <<In(Whitespace)>>), Grp(1, <<Alt(<<<<Str("said")>>, <<Str("wrote")>>>>)>>), Rep(0, 1,
        <<In({",", ":", ".", ";"})>>), Rep(0, -1, <<In(Whitespace)>>), In({"\"", "'", LDQUO,
        LSQUO, LAQUO}), Grp(2, <<Rep(10, 500, <<NotIn({"\"", "'", LDQUO, RDQUO, LSQUO, RSQUO,
        LAQUO, RAQUO})>>)>>), In({"\"", "'", RDQUO, RSQUO, RAQUO})>>,
       score |-> 95, quote_group |-> 2],
    [regex |-> <<Str("to quote"), Rep(1, -1, <<In(Whitespace)>>), Alias, Rep(0, 1, <<In({",",
        ":", ".", ";"})>>), Rep(0, -1, <<In(Whitespace)>>), In({"\"", "'", LDQUO, LSQUO,
        LAQUO}), Grp(1, <<Rep(10, 500, <<NotIn({"\"", "'", LDQUO, RDQUO, LSQUO, RSQUO, LAQUO,
        RAQUO})>>)>>), In({"\"", "'", RDQUO, RSQUO, RAQUO})>>,
       score |-> 95, quote_group |-> 1],
    [regex |-> <<Alias, Rep(1, -1, <<In(Whitespace)>>), Str("reminded us"), Rep(0, 1,
        <<In({",", ":", ".", ";"})>>), Rep(0, -1, <<In(Whitespace)>>), In({"\"", "'", LDQUO,
        LSQUO, LAQUO}), Grp(1, <<Rep(10, 500, <<NotIn({"\"", "'", LDQUO, RDQUO, LSQUO, RSQUO,
        LAQUO, RAQUO})>>)>>), In({"\"", "'", RDQUO, RSQUO, RAQUO})>>,
       score |-> 90, quote_group |-> 1],
    [regex |-> <<Alias, Rep(1, -1, <<In(Whitespace)>>), Str("taught us"), Rep(0, 1, <<In({",",
        ":", ".", ";"})>>), Rep(0, -1, <<In(Whitespace)>>), In({"\"", "'", LDQUO, LSQUO,
        LAQUO}), Grp(1, <<Rep(10, 500, <<NotIn({"\"", "'", LDQUO, RDQUO, LSQUO, RSQUO, LAQUO,
        RAQUO})>>)>>), In({"\"", "'", RDQUO, RSQUO, RAQUO})>>,
       score |-> 90, quote_group |-> 1],
    [regex |-> <<In({"\"", "'", LDQUO, LSQUO, LAQUO}), Grp(1, <<Rep(10, 500, <<NotIn({"\"",
        "'", LDQUO, RDQUO, LSQUO, RSQUO, LAQUO, RAQUO})>>)>>), In({"\"", "'", RDQUO, RSQUO,
        RAQUO}), Rep(0, -1, <<In(Whitespace)>>), In({"-", ENDASH, EMDASH}), Rep(0, -1,
        <<In(Whitespace)>>), Alias>>,
       score |-> 95, quote_group |-> 1],
    [regex |-> <<In({"\"", "'", LDQUO, LSQUO, LAQUO}), Grp(1, <<Rep(10, 500, <<NotIn({"\"",
        "'", LDQUO, RDQUO, LSQUO, RSQUO, LAQUO, RAQUO})>>)>>), In({"\"", "'", RDQUO, RSQUO,
        RAQUO}), Rep(0, -1, <<In(Whitespace)>>), Rep(0, 1, <<Str(",")>>), Rep(0, -1,
        <<In(Whitespace)>>), Grp(2, <<Alt(<<<<Str("said")>>, <<Str("wrote")>>>>)>>), Rep(1, -1,
        <<In(Whitespace)>>), Alias>>,
       score |-> 90, quote_group |-> 1]
>>

weak_indicators == <<
    [regex |-> <<Alias, Rep(1, -1, <<In(Whitespace)>>), Str("believed")>>,
       score |-> 50],
    [regex |-> <<Alias, Rep(1, -1, <<In(Whitespace)>>), Str("argued")>>,
       score |-> 50],
    [regex |-> <<Alias, Rep(1, -1, <<In(Whitespace)>>), Str("stated")>>,
       score |-> 50],
    [regex |-> <<Str("according to"), Rep(1, -1, <<In(Whitespace)>>), Alias>>,
       score |-> 40],
    [regex |-> <<Str("philosophy of"), Rep(1, -1, <<In(Whitespace)>>), Alias>>,
       score |-> 40],
    [regex |-> <<Str("teachings of"), Rep(1, -1, <<In(Whitespace)>>), Alias>>,
       score |-> 50],
    [regex |-> <<Str("ideas of"), Rep(1, -1, <<In(Whitespace)>>), Alias>>,
       score |-> 40],
    [regex |-> <<Str("legacy of"), Rep(1, -1, <<In(Whitespace)>>), Alias>>,
       score |-> 40],
    [regex |-> <<Alias, Str("'s"), Rep(1, -1, <<In(Whitespace)>>), Grp(1,
        <<Alt(<<<<Str("words")>>, <<Str("teachings")>>, <<Str("philosophy")>>,
        <<Str("ideas")>>>>)>>)>>,
       score |-> 50]
>>

(***************************************************************************)
(* difflib.SequenceMatcher(None, a, b).ratio() and are_similar             *)
(*                                                                         *)
(* Offsets are 0-based and ranges half-open, as in difflib.  No character  *)
(* is junk (isjunk is None); with len(b) >= 200 the characters that fill   *)
(* more than 1% of b, and one place more, are popular: no block is looked  *)
(* for at a popular character, a block that was found is extended over     *)
(* them.                                                                   *)
(***************************************************************************)
\* how often c occurs in b
RECURSIVE Occurrences(_, _)
Occurrences(c, b) ==
    IF b = <<>> THEN 0 ELSE (IF b[1] = c THEN 1 ELSE 0) + Occurrences(c, Tail(b))

\* bpopular of __chain_b: the characters b2j does not list
Popular(b) ==
    IF Len(b) >= 200
    THEN {c \in {b[k] : k \in 1..Len(b)} : Occurrences(c, b) > Len(b) \div 100 + 1}
    ELSE {}

\* the length of the common run of a from i and b from j, inside
\* [.., ahi) x [.., bhi), that stops before a character of skipped
RECURSIVE CommonRun(_, _, _, _, _, _, _)
CommonRun(a, b, skipped, i, j, ahi, bhi) ==
    IF i >= ahi \/ j >= bhi \/ a[i + 1] /= b[j + 1] \/ b[j + 1] \in skipped THEN 0
    ELSE 1 + CommonRun(a, b, skipped, i + 1, j + 1, ahi, bhi)

\* the length of the common run of a and b that ends before i and j, inside
\* [alo, ..) x [blo, ..)
RECURSIVE CommonBefore(_, _, _, _, _, _)
CommonBefore(a, b, i, j, alo, blo) ==
    IF i <= alo \/ j <= blo \/ a[i] /= b[j] THEN 0
    ELSE 1 + CommonBefore(a, b, i - 1, j - 1, alo, blo)

\* the block <<i, j, k>> with the matching characters before and after it
Extended(a, b, alo, ahi, blo, bhi, i, j, k) ==
    LET before == CommonBefore(a, b, i, j, alo, blo)
    IN  <<i - before, j - before,
          k + before + CommonRun(a, b, {}, i + k, j + k, ahi, bhi)>>

\* SequenceMatcher.find_longest_match(alo, ahi, blo, bhi): <<i, j, k>>.  The
\* longest matching block without popular characters, of those the one that
\* starts earliest in a, of those the one that starts earliest in b, and
\* <<alo, blo, 0>> when there is none; then the block is extended at both
\* ends as far as the characters match
find_longest_match(a, b, popular, alo, ahi, blo, bhi) ==
    LET starts == {p \in (alo..(ahi - 1)) \X (blo..(bhi - 1)) :
                       a[p[1] + 1] = b[p[2] + 1] /\ b[p[2] + 1] \notin popular}
        blocks == {<<p[1], p[2], CommonRun(a, b, popular, p[1], p[2], ahi, bhi)>> : p \in starts}
    IN  IF blocks = {} THEN Extended(a, b, alo, ahi, blo, bhi, alo, blo, 0)
        ELSE LET k == CHOOSE x \in {m[3] : m \in blocks} : \A m \in blocks : m[3] <= x
                 i == CHOOSE x \in {m[1] : m \in {n \in blocks : n[3] = k}} :
                          \A m \in blocks : m[3] = k => x <= m[1]
                 j == CHOOSE x \in {m[2] : m \in {n \in blocks : n[3] = k /\ n[1] = i}} :
                          \A m \in blocks : (m[3] = k /\ m[1] = i) => x <= m[2]
             IN  Extended(a, b, alo, ahi, blo, bhi, i, j, k)

\* the summed sizes of SequenceMatcher.get_matching_blocks() in [alo, ahi) x [blo, bhi):
\* the longest block, then the same to its left and to its right
RECURSIVE MatchedSize(_, _, _, _, _, _, _)
RECURSIVE MatchedAround(_, _, _, _, _, _, _, _)

\* the size of block m = <<i, j, k>> and of the blocks to its left and right
MatchedAround(a, b, popular, alo, ahi, blo, bhi, m) ==
    IF m[3] = 0 THEN 0
    ELSE m[3] + (IF alo < m[1] /\ blo < m[2]
                 THEN MatchedSize(a, b, popular, alo, m[1], blo, m[2]) ELSE 0)
              + (IF m[1] + m[3] < ahi /\ m[2] + m[3] < bhi
                 THEN MatchedSize(a, b, popular, m[1] + m[3], ahi, m[2] + m[3], bhi) ELSE 0)

MatchedSize(a, b, popular, alo, ahi, blo, bhi) ==
    MatchedAround(a, b, popular, alo, ahi, blo, bhi,
                  find_longest_match(a, b, popular, alo, ahi, blo, bhi))

\* ratio() = 2.0 * matches / (len(a) + len(b)) as the fraction <<numerator, denominator>>;
\* 1.0 when both are empty
ratio(a, b) ==
    IF Len(a) + Len(b) = 0 THEN <<1, 1>>
    ELSE <<2 * MatchedSize(a, b, Popular(b), 0, Len(a), 0, Len(b)), Len(a) + Len(b)>>

\* SIMILARITY_THRESHOLD = 0.85, in hundredths
SIMILARITY_THRESHOLD == 85

\* ratio >= SIMILARITY_THRESHOLD for the fraction r
AtLeastThreshold(r) == r[1] * 100 >= SIMILARITY_THRESHOLD * r[2]

are_similar(quote1, quote2) ==
    AtLeastThreshold(ratio(quote1, quote2))

(***************************************************************************)
(* analyze_quotations.py: attribution, known quotes, scan of one speech    *)
(***************************************************************************)
\* Python's None; a one-element sequence, so that it compares with any text
None == <<"None">>

\* bool(x) of a text or None
Truthy(x) == x /= None /\ x /= <<>>

Max(a, b) == IF a >= b THEN a ELSE b
Min(a, b) == IF a <= b THEN a ELSE b

\* sub in s
Contains(s, sub) == \E i \in 0..(Len(s) - Len(sub)) : StrAt(s, i, sub, FALSE)

\* match.group(g) as text; None for a group that took no part in the match
MatchGroup(s, m, g) ==
    IF m.caps[g][1] < 0 THEN None ELSE SubSeq(s, m.caps[g][1] + 1, m.caps[g][2])

\* s[lo:hi]
Slice(s, lo, hi) == SubSeq(s, lo + 1, Min(hi, Len(s)))

FAMOUS_FIGURES == <<
    [key |-> Chars("mandela"), name |-> Chars("Nelson Mandela")],
    [key |-> Chars("nelson mandela"), name |-> Chars("Nelson Mandela")],
    [key |-> Chars("gandhi"), name |-> Chars("Mahatma Gandhi")],
    [key |-> Chars("mahatma gandhi"), name |-> Chars("Mahatma Gandhi")],
    [key |-> Chars("martin luther king"), name |-> Chars("Martin Luther King Jr.")],
    [key |-> Chars("mlk"), name |-> Chars("Martin Luther King Jr.")],
    [key |-> Chars("kennedy"), name |-> Chars("John F. Kennedy")],
    [key |-> Chars("jfk"), name |-> Chars("John F. Kennedy")],
    [key |-> Chars("churchill"), name |-> Chars("Winston Churchill")],
    [key |-> Chars("einstein"), name |-> Chars("Albert Einstein")],
    [key |-> Chars("pope francis"), name |-> Chars("Pope Francis")],
    [key |-> Chars("pope paul"), name |-> Chars("Pope Paul VI")],
    [key |-> Chars("pope john paul"), name |-> Chars("Pope John Paul II")],
    [key |-> Chars("lincoln"), name |-> Chars("Abraham Lincoln")],
    [key |-> Chars("roosevelt"), name |-> Chars("Franklin D. Roosevelt")],
    [key |-> Chars("eleanor roosevelt"), name |-> Chars("Eleanor Roosevelt")],
    [key |-> Chars("kofi annan"), name |-> Chars("Kofi Annan")],
    [key |-> Chars("ban ki-moon"), name |-> Chars("Ban Ki-moon")],
    [key |-> Chars("ban ki moon"), name |-> Chars("Ban Ki-moon")],
    [key |-> Chars("guterres"), name |-> Chars("Ant") \o <<"U+00F3">> \o Chars("nio Guterres")],
    [key |-> Chars("dag hammarskj") \o <<"U+00F6">> \o Chars("ld"), name |-> Chars("Dag Hammarskj") \o <<"U+00F6">> \o Chars("ld")],
    [key |-> Chars("hammarskjold"), name |-> Chars("Dag Hammarskj") \o <<"U+00F6">> \o Chars("ld")],
    [key |-> Chars("shakespeare"), name |-> Chars("William Shakespeare")],
    [key |-> Chars("confucius"), name |-> Chars("Confucius")],
    [key |-> Chars("buddha"), name |-> Chars("Buddha")],
    [key |-> Chars("jesus"), name |-> Chars("Jesus Christ")],
    [key |-> Chars("prophet muhammad"), name |-> Chars("Prophet Muhammad")],
    [key |-> Chars("desmond tutu"), name |-> Chars("Desmond Tutu")],
    [key |-> Chars("malala"), name |-> Chars("Malala Yousafzai")],
    [key |-> Chars("greta thunberg"), name |-> Chars("Greta Thunberg")],
    [key |-> Chars("secretary-general"), name |-> Chars("UN Secretary-General")],
    [key |-> Chars("the charter"), name |-> Chars("UN Charter")],
    [key |-> Chars("un charter"), name |-> Chars("UN Charter")]
>>

famous_quotes == <<
    [known_quote |-> Chars("to save succeeding generations from the scourge of war"),
     source |-> Chars("UN Charter Preamble"),
     explanation |->
        Chars("The opening words of the 1945 UN Charter, expressing the primary purpose of the United Nations.")],
    [known_quote |-> Chars("we the peoples of the united nations"),
     source |-> Chars("UN Charter Preamble"),
     explanation |->
        Chars("The iconic opening phrase of the UN Charter, emphasizing that the UN represents peoples, not just governments.")],
    [known_quote |-> Chars("development is the new name of peace"),
     source |-> Chars("Pope Paul VI"),
     explanation |->
        Chars("From his 1967 encyclical Populorum Progressio, quoted in his historic 1965 UN address.")],
    [known_quote |-> Chars("i have a dream"),
     source |-> Chars("Martin Luther King Jr."),
     explanation |->
        Chars("From his famous 1963 speech at the Lincoln Memorial during the March on Washington.")],
    [known_quote |-> Chars("injustice anywhere is a threat to justice everywhere"),
     source |-> Chars("Martin Luther King Jr."),
     explanation |->
        Chars("From his 1963 \"Letter from Birmingham Jail.\"")],
    [known_quote |-> Chars("be the change you wish to see"),
     source |-> Chars("Mahatma Gandhi"),
     explanation |->
        Chars("Often attributed to Gandhi, summarizing his philosophy of leading by example.")],
    [known_quote |-> Chars("never again"),
     source |-> Chars("Holocaust Remembrance"),
     explanation |->
        Chars("A pledge repeated after World War II to prevent future genocides.")],
    [known_quote |-> Chars("peace cannot be kept by force"),
     source |-> Chars("Albert Einstein"),
     explanation |->
        Chars("Einstein's view that lasting peace requires understanding, not military power.")],
    [known_quote |-> Chars("the arc of the moral universe is long"),
     source |-> Chars("Martin Luther King Jr."),
     explanation |->
        Chars("Popularized by King, originally from Theodore Parker.")],
    [known_quote |-> Chars("education is the most powerful weapon"),
     source |-> Chars("Nelson Mandela"),
     explanation |->
        Chars("Mandela's belief in education as a tool for social change.")],
    [known_quote |-> Chars("love is the strongest force"),
     source |-> Chars("Mahatma Gandhi"),
     explanation |->
        Chars("Gandhi's philosophy of nonviolent resistance through love.")],
    [known_quote |-> Chars("i am a nationalist, but my nationalism is humanity"),
     source |-> Chars("Mahatma Gandhi"),
     explanation |->
        Chars("Gandhi expressing that his patriotism extends to all of humanity.")]
>>

\* MIN_QUOTE_LENGTH
MIN_QUOTE_LENGTH == 20

\* the default of identify_speaker's parameter window
window == 300

\* text[start:end] of identify_speaker: up to window characters before the
\* match and 50 after its start
ContextWindow(text, quote_pos) ==
    Slice(text, Max(0, quote_pos - window), Min(Len(text), quote_pos + 50))

\* faulty lookup: of the keys in context the longest decides
FirstFigure_Longest(context) ==
    IF \E k \in 1..Len(FAMOUS_FIGURES) : Contains(context, FAMOUS_FIGURES[k].key)
    THEN CHOOSE k \in 1..Len(FAMOUS_FIGURES) :
            /\ Contains(context, FAMOUS_FIGURES[k].key)
            /\ \A j \in 1..Len(FAMOUS_FIGURES) :
                  Contains(context, FAMOUS_FIGURES[j].key)
                  => \/ Len(FAMOUS_FIGURES[j].key) < Len(FAMOUS_FIGURES[k].key)
                     \/ (Len(FAMOUS_FIGURES[j].key) = Len(FAMOUS_FIGURES[k].key) /\ k <= j)
    ELSE 0

\* the first entry of FAMOUS_FIGURES, in table order, whose key is in context; 0: none
FirstFigure(context) ==
    IF \E k \in 1..Len(FAMOUS_FIGURES) : Contains(context, FAMOUS_FIGURES[k].key)
    THEN CHOOSE k \in 1..Len(FAMOUS_FIGURES) :
            /\ Contains(context, FAMOUS_FIGURES[k].key)
            /\ \A j \in 1..(k - 1) : ~Contains(context, FAMOUS_FIGURES[j].key)
    ELSE 0

\* re.findall(name_patterns[p], original_context): the texts of group 1
GroupTexts(s, ms, g) == [k \in 1..Len(ms) |-> MatchGroup(s, ms[k], g)]

NameMatches(original_context, p) ==
    GroupTexts(original_context, re_finditer(name_patterns[p], original_context, FALSE), 1)

\* the loop over name_patterns from pattern p on: matches[-1] of the first
\* pattern that matches anything
\* matches[-1] when there are matches, otherwise what the next pattern gives
LastOrElse(matches, alternative) ==
    IF Len(matches) > 0 THEN matches[Len(matches)] ELSE alternative

RECURSIVE NameFromPatterns(_, _)
NameFromPatterns(original_context, p) ==
    IF p > Len(name_patterns) THEN None
    ELSE LastOrElse(NameMatches(original_context, p),
                    NameFromPatterns(original_context, p + 1))

\* the name of figure k when a key was found, otherwise what the name patterns give
FigureOrElse(k, alternative) == IF k > 0 THEN FAMOUS_FIGURES[k].name ELSE alternative

SpeakerIn(original_context) ==
    FigureOrElse(FirstFigure(StrLower(original_context)),
                 NameFromPatterns(original_context, 1))

\* faulty resolver: the first figure of the table when nothing was found
identify_speaker_Default(text, quote_pos) ==
    LastOrElse(IF SpeakerIn(ContextWindow(text, quote_pos)) = None THEN <<>>
               ELSE <<SpeakerIn(ContextWindow(text, quote_pos))>>,
               FAMOUS_FIGURES[1].name)

identify_speaker(text, quote_pos) == SpeakerIn(ContextWindow(text, quote_pos))

\* the loop over famous_quotes from entry k on
RECURSIVE SourceFrom(_, _)
SourceFrom(quote_norm, k) ==
    IF k > Len(famous_quotes) THEN <<None, None>>
    ELSE IF \/ Contains(quote_norm, famous_quotes[k].known_quote)
            \/ are_similar(quote_norm, famous_quotes[k].known_quote)
         THEN <<famous_quotes[k].source, famous_quotes[k].explanation>>
         ELSE SourceFrom(quote_norm, k + 1)

get_quote_source(quote_norm) == SourceFrom(quote_norm, 1)

all_patterns == QUOTE_PATTERNS \o STANDALONE_PATTERNS

\* the body of the loop over the matches of one pattern, for match m with
\* quote = m.group(1) and normalized = normalize_quote(quote): what the match
\* adds to all_quotes, together with match.start()
QuoteFound(text, m, quote, normalized) ==
    IF Len(StrStrip(quote)) >= MIN_QUOTE_LENGTH /\ Len(normalized) >= MIN_QUOTE_LENGTH
    THEN <<[original |-> StrStrip(quote),
            normalized |-> normalized,
            quoted_person |-> identify_speaker(text, m.start),
            match_start |-> m.start]>>
    ELSE <<>>

\* the loop over the matches ms of one pattern from match k on
RECURSIVE QuotesOfMatches(_, _, _)
QuotesOfMatches(text, ms, k) ==
    IF k > Len(ms) THEN <<>>
    ELSE QuoteFound(text, ms[k], MatchGroup(text, ms[k], 1),
                    normalize_quote(MatchGroup(text, ms[k], 1)))
         \o QuotesOfMatches(text, ms, k + 1)

\* the loop over all_patterns from pattern p on
RECURSIVE QuotesOfPatterns(_, _)
QuotesOfPatterns(text, p) ==
    IF p > Len(all_patterns) THEN <<>>
    ELSE QuotesOfMatches(text, re_finditer(all_patterns[p], text, TRUE), 1)
         \o QuotesOfPatterns(text, p + 1)

\* what the scan of one text finds; a speech without text is skipped
ScanText(text) ==
    IF ~Truthy(text) THEN <<>> ELSE QuotesOfPatterns(text, 1)

(***************************************************************************)
(* extract_quotations.py: the figure-anchored extraction                   *)
(*                                                                         *)
(* conn is the join the query reads: one row [chunk_id, speech_id, text,   *)
(* year, country_name, speaker] per chunk.  Scores are in hundredths.      *)
(***************************************************************************)
\* str.find(sub): the lowest offset at which sub occurs in s, or -1
Find(s, sub) ==
    IF Contains(s, sub)
    THEN CHOOSE i \in 0..(Len(s) - Len(sub)) :
            StrAt(s, i, sub, FALSE) /\ \A j \in 0..(i - 1) : ~StrAt(s, j, sub, FALSE)
    ELSE -1

(***************************************************************************)
(* json.loads(search_patterns), line 25, and what the loop of line 29      *)
(* draws from its result.  A Python value is a record with its type in t:  *)
(* str (v the text), int (v the decimal text), float (v its repr), bool,   *)
(* NoneType, list (v the items) and dict (v the <<key, value>> pairs in    *)
(* insertion order).  Offsets count from 0.                                *)
(***************************************************************************)
JSONDecodeError == "JSONDecodeError"
StopIteration == "StopIteration"
RecursionError == "RecursionError"

\* the whitespace of a JSON document
JsonWhitespace == {" ", "\t", "\n", "\r"}

DigitSeq == Chars("0123456789")
DigitSet == {DigitSeq[i] : i \in 1..Len(DigitSeq)}

\* the characters a JSON string holds only as an escape: U+0000 to U+001F
ControlSet == {CharOf(cp) : cp \in 0..31}

\* the result of one parsing step: the value and the offset after it, or
\* the exception raised
Parsed(v, end) == [err |-> "none", v |-> v, end |-> end]
ParseError(exception) == [err |-> exception, v |-> None, end |-> -1]

PyStr(text) == [t |-> "str", v |-> text]
PyNone == [t |-> "NoneType", v |-> None]

\* the offset of the first character from offset i on that is no whitespace
JsonSkip(s, i) == i + RunLen(s, i, In(JsonWhitespace), FALSE, -1)

\* the value of four hexadecimal digits at offset i, or -1
Hex4(s, i) ==
    IF i + 4 <= Len(s)
       /\ \A k \in 1..4 : \E d \in 1..16 : AsciiLower(s[i + k]) = AsciiLower(HexDigits[d])
    THEN HexNumber([k \in 1..4 |->
                       HexDigits[CHOOSE d \in 1..16 :
                                     AsciiLower(s[i + k]) = AsciiLower(HexDigits[d])]], 0)
    ELSE -1

\* the escapes of one character: the character after the backslash and
\* the character it stands for
JsonEscapes ==
    {<<"\"", "\"">>, <<"\\", "\\">>, <<"/", "/">>, <<"b", "U+0008">>, <<"f", "\f">>,
     <<"n", "\n">>, <<"r", "\r">>, <<"t", "\t">>}

HighSurrogate(cp) == cp >= 55296 /\ cp <= 56319
LowSurrogate(cp) == cp >= 56320 /\ cp <= 57343

RECURSIVE JsonString(_, _, _)
RECURSIVE JsonEscape(_, _, _)
RECURSIVE JsonUnicode(_, _, _, _)
RECURSIVE JsonSurrogates(_, _, _, _, _)

\* scanstring, strict: the text of a string from offset i on, after acc;
\* the string ends at the next quotation mark that no backslash precedes
JsonString(s, i, acc) ==
    IF i >= Len(s) THEN ParseError(JSONDecodeError)
    ELSE IF s[i + 1] = "\"" THEN Parsed(PyStr(acc), i + 1)
    ELSE IF s[i + 1] = "\\" THEN JsonEscape(s, i + 1, acc)
    ELSE IF s[i + 1] \in ControlSet THEN ParseError(JSONDecodeError)
    ELSE JsonString(s, i + 1, Append(acc, s[i + 1]))

\* the escape whose backslash precedes offset i
JsonEscape(s, i, acc) ==
    IF i >= Len(s) THEN ParseError(JSONDecodeError)
    ELSE IF s[i + 1] = "u" THEN JsonUnicode(s, i + 1, acc, Hex4(s, i + 1))
    ELSE IF \E e \in JsonEscapes : e[1] = s[i + 1]
         THEN JsonString(s, i + 1,
                         Append(acc, (CHOOSE e \in JsonEscapes : e[1] = s[i + 1])[2]))
    ELSE ParseError(JSONDecodeError)

\* \uXXXX with the digits at offset i and the value c; a high surrogate
\* that a \u escape follows is joined with it when that is a low surrogate
JsonUnicode(s, i, acc, c) ==
    IF c < 0 \/ i + 4 >= Len(s) THEN ParseError(JSONDecodeError)
    ELSE IF HighSurrogate(c) /\ i + 10 < Len(s) /\ s[i + 5] = "\\" /\ s[i + 6] = "u"
         THEN JsonSurrogates(s, i, acc, c, Hex4(s, i + 6))
    ELSE JsonString(s, i + 4, Append(acc, CharOf(c)))

JsonSurrogates(s, i, acc, c, c2) ==
    IF c2 < 0 THEN ParseError(JSONDecodeError)
    ELSE IF LowSurrogate(c2)
         THEN JsonString(s, i + 10,
                         Append(acc, CharOf(65536 + (c - 55296) * 1024 + (c2 - 56320))))
    ELSE JsonString(s, i + 4, Append(acc, CharOf(c)))

\* \d*: the number of digits from offset i on
DigitRun(s, i) ==
    CHOOSE n \in 0..(Len(s) - i) :
        /\ \A k \in 1..n : s[i + k] \in DigitSet
        /\ (i + n = Len(s) \/ s[i + n + 1] \notin DigitSet)

\* the offset after the integer part of a number at offset i, or -1
IntegerEnd(s, i) ==
    LET j == IF i < Len(s) /\ s[i + 1] = "-" THEN i + 1 ELSE i
    IN  IF j >= Len(s) THEN -1
        ELSE IF s[j + 1] = "0" THEN j + 1
        ELSE IF s[j + 1] \in DigitSet THEN j + DigitRun(s, j)
        ELSE -1

\* the offset after the fraction that can follow at offset i
FractionEnd(s, i) ==
    IF i + 1 < Len(s) /\ s[i + 1] = "." /\ s[i + 2] \in DigitSet
    THEN i + 1 + DigitRun(s, i + 1)
    ELSE i

\* the offset after the exponent that can follow at offset i
ExponentEnd(s, i) ==
    IF i + 1 < Len(s) /\ s[i + 1] \in {"e", "E"}
    THEN LET j == IF i + 2 < Len(s) /\ s[i + 2] \in {"-", "+"} THEN i + 2 ELSE i + 1
             n == DigitRun(s, j)
         IN  IF n > 0 THEN j + n ELSE i
    ELSE i

\* s without its leading run of the character c
DropLeading(s, c) ==
    LET n == CHOOSE n \in 0..Len(s) :
                 (\A k \in 1..n : s[k] = c) /\ (n = Len(s) \/ s[n + 1] /= c)
    IN  SubSeq(s, n + 1, Len(s))

\* the number a sequence of decimal digits writes
RECURSIVE Decimal(_, _)
Decimal(ds, acc) ==
    IF ds = <<>> THEN acc
    ELSE Decimal(Tail(ds), 10 * acc + (CHOOSE k \in 0..9 : DigitSeq[k + 1] = ds[1]))

\* the decimal digits of n >= 0
RECURSIVE DecimalString(_)
DecimalString(n) ==
    IF n < 10 THEN <<DigitSeq[n + 1]>>
    ELSE DecimalString(n \div 10) \o <<DigitSeq[(n % 10) + 1]>>

Zeros(n) == [k \in 1..n |-> "0"]

\* the exponent written by the text e (digits after an optional sign); one
\* of more than six digits is past every float and taken for 100000
ExponentOf(e) ==
    LET neg == e /= <<>> /\ e[1] = "-"
        ds == DropLeading(IF e /= <<>> /\ e[1] \in {"-", "+"} THEN Tail(e) ELSE e, "0")
        n == IF Len(ds) > 6 THEN 100000 ELSE Decimal(ds, 0)
    IN  IF neg THEN -n ELSE n

(***************************************************************************)
(* float(literal) and repr of the float (PyFloat_FromString and            *)
(* float_repr): the float nearest to the number the literal writes, ties   *)
(* to the even one, and the shortest digits that give that float back.     *)
(* A whole number of any size is the sequence of its digits to the base    *)
(* 10000, the lowest first and the highest not zero; 0 is <<>>.            *)
(***************************************************************************)
\* x without the zeros at its top
Trim(x) ==
    SubSeq(x, 1, CHOOSE n \in 0..Len(x) :
                     (n = 0 \/ x[n] /= 0) /\ \A j \in (n + 1)..Len(x) : x[j] = 0)

Limb(x, i) == IF i <= Len(x) THEN x[i] ELSE 0

Glue(v, high) == [v |-> v \o high.v, c |-> high.c]

RECURSIVE Carried(_, _, _, _)
RECURSIVE CarriedHigh(_, _, _, _)

\* places lo..hi of raw with the carry c taken in: the digits v to the base
\* 10000 and the carry c that leaves them
Carried(raw, lo, hi, c) ==
    IF lo > hi THEN [v |-> <<>>, c |-> c]
    ELSE IF lo = hi
         THEN [v |-> <<(raw[lo] + c) % 10000>>, c |-> (raw[lo] + c) \div 10000]
    ELSE CarriedHigh(raw, (lo + hi) \div 2, hi, Carried(raw, lo, (lo + hi) \div 2, c))

CarriedHigh(raw, mid, hi, low) == Glue(low.v, Carried(raw, mid + 1, hi, low.c))

WithCarry(r) == Trim(Append(r.v, r.c))

\* the number whose places hold the numbers raw
Normal(raw) == WithCarry(Carried(raw, 1, Len(raw), 0))

\* x * k for k below 10000
Times(x, k) == Normal([i \in 1..Len(x) |-> x[i] * k])

Plus(x, y) ==
    Normal([i \in 1..(IF Len(x) > Len(y) THEN Len(x) ELSE Len(y)) |-> Limb(x, i) + Limb(y, i)])

\* x - y for y <= x
Minus(x, y) == Normal([i \in 1..Len(x) |-> x[i] - Limb(y, i)])

\* x * 10000^n
ShiftLimbs(x, n) == IF x = <<>> THEN <<>> ELSE [i \in 1..n |-> 0] \o x

RECURSIVE Product(_, _)
Product(x, y) ==
    IF Len(y) = 0 THEN <<>>
    ELSE IF Len(y) = 1 THEN Times(x, y[1])
    ELSE Plus(Product(x, SubSeq(y, 1, Len(y) \div 2)),
              ShiftLimbs(Product(x, SubSeq(y, (Len(y) \div 2) + 1, Len(y))), Len(y) \div 2))

Square(x) == Product(x, x)

\* b^n for b below 10
RECURSIVE Power(_, _)
Power(b, n) ==
    IF n <= 4 THEN <<b ^ n>>
    ELSE IF n % 2 = 0 THEN Square(Power(b, n \div 2))
    ELSE Times(Power(b, n - 1), b)

\* x * 10^n
TimesTen(x, n) == ShiftLimbs(Times(x, 10 ^ (n % 4)), n \div 4)

\* -1, 0 or 1 as x is below, equal to or above y
Compared(x, y) ==
    IF Len(x) /= Len(y) THEN IF Len(x) < Len(y) THEN -1 ELSE 1
    ELSE IF x = y THEN 0
    ELSE LET p == CHOOSE p \in 1..Len(x) :
                      x[p] /= y[p] /\ \A j \in (p + 1)..Len(x) : x[j] = y[j]
         IN  IF x[p] < y[p] THEN -1 ELSE 1

\* the number that decimal digits write
Limbs(ds) ==
    Trim([i \in 1..((Len(ds) + 3) \div 4) |->
             Decimal(SubSeq(ds, IF Len(ds) - 4 * i + 1 < 1 THEN 1 ELSE Len(ds) - 4 * i + 1,
                            Len(ds) - 4 * i + 4), 0)])

\* the 4 * n decimal digits of x, as numbers, the highest first
DigitsOf(x, n) ==
    [k \in 1..(4 * n) |-> (Limb(x, n - ((k - 1) \div 4)) \div (10 ^ (3 - ((k - 1) % 4)))) % 10]

\* x * 2^k for k > 0, and x
ScaledBy(x, k) == IF k > 0 THEN Product(x, Power(2, k)) ELSE x

\* the fraction n / m with 2^k taken out: n / m = (n / m of the result) * 2^k
Scaled(n, m, k) == [n |-> ScaledBy(n, -k), m |-> ScaledBy(m, k)]

AtLeastOne(f) == Compared(f.m, f.n) <= 0

\* the fraction digits * 10^e10
Fraction(digits, e10) ==
    IF e10 >= 0 THEN [n |-> TimesTen(Limbs(digits), e10), m |-> <<1>>]
    ELSE [n |-> Limbs(digits), m |-> TimesTen(<<1>>, -e10)]

\* the k with 2^k <= f < 2^(k + 1), for 10^g <= f < 10^(g + 1): log2(10) is
\* 3.3219280948..., so that k lies no further than the bounds below
BinaryExponent(f, g) ==
    LET low == ((g * 3321928) \div 1000000) - 1
        fit == {k \in low..(low + 6) : AtLeastOne(Scaled(f.n, f.m, k))}
    IN  CHOOSE k \in fit : \A j \in fit : j <= k

\* long division by bits: the state after steps more bits of r / t, for
\* r < 2 * t; q holds the bits so far and r the remainder, doubled at each bit
RECURSIVE Quotient(_, _, _)
Quotient(st, t, steps) ==
    IF steps = 0 THEN st
    ELSE IF Compared(st.r, t) >= 0
    THEN Quotient([r |-> Times(Minus(st.r, t), 2), q |-> Plus(Times(st.q, 2), <<1>>)],
                  t, steps - 1)
    ELSE Quotient([r |-> Times(st.r, 2), q |-> Times(st.q, 2)], t, steps - 1)

\* the quotient rounded to the nearest whole number, ties to the even one
RoundedEven(st, t) ==
    IF Compared(st.r, t) > 0 \/ (Compared(st.r, t) = 0 /\ Limb(st.q, 1) % 2 = 1)
    THEN Plus(st.q, <<1>>)
    ELSE st.q

\* the float q * 2^e, for q up to 2^53 and e from -1074 to 971: 2^53 is 2^52
\* with the next exponent, and from 2^1024 on the float is inf
Float(q, e) ==
    IF Compared(q, Power(2, 53)) /= 0 THEN [inf |-> FALSE, q |-> q, e |-> e]
    ELSE IF e = 971 THEN [inf |-> TRUE, q |-> <<>>, e |-> 0]
    ELSE [inf |-> FALSE, q |-> Power(2, 52), e |-> e + 1]

\* the 53 bits of sc from 2^e on, rounded
Divided(sc, e) ==
    Float(RoundedEven(Quotient([r |-> sc.n, q |-> <<>>], sc.m, 53), sc.m), e)

\* the float nearest to f, with 2^s the place of its highest bit; below
\* 2^-1022 the floats are 2^-1074 apart, and from 2^1024 on the float is inf
NearestFrom(f, s) ==
    IF s > 1023 THEN [inf |-> TRUE, q |-> <<>>, e |-> 0]
    ELSE Divided(Scaled(f.n, f.m, s), s - 52)

\* the float nearest to the fraction f, 10^g <= f < 10^(g + 1)
Nearest(f, g) == NearestFrom(f, Max(BinaryExponent(f, g), -1022))

\* the first place at which the digit sequences a and b of one length differ
FirstDiff(a, b) ==
    CHOOSE p \in 1..Len(a) : a[p] /= b[p] /\ \A j \in 1..(p - 1) : a[j] = b[j]

\* The floats that round to a float b lie between a and c, and at a and c
\* when the last bit of b is 0 (even); the three are digit sequences of one
\* length, and p is the number of places kept.  Is b cut after place p
\* within a..c: from the place lo on, where b and a differ, and at a
LowFits(a, even, lo, p) == p >= lo \/ (even /\ \A j \in (p + 1)..Len(a) : a[j] = 0)

\* is b cut after place p and raised by one in that place within a..c: from
\* the place hi on, where b and c differ, unless it is c and that is outside
HighFits(b, c, even, hi, p) ==
    /\ p >= hi
    /\ \/ even
       \/ c[hi] /= b[hi] + 1
       \/ \E j \in (hi + 1)..p : b[j] /= 9 \/ c[j] /= 0
       \/ \E j \in (p + 1)..Len(c) : c[j] /= 0

\* is b nearer to the raised cut than to the cut, or as near with an odd
\* digit in place p
AboveHalf(b, p) ==
    /\ p < Len(b)
    /\ \/ b[p + 1] > 5
       \/ /\ b[p + 1] = 5
          /\ (\E j \in (p + 2)..Len(b) : b[j] /= 0) \/ b[p] % 2 = 1

\* the first p places of b raised by one in the last; b starts with a 0
PlusOne(b, p) ==
    LET nines == CHOOSE t \in 0..(p - 1) : b[p - t] /= 9 /\ \A j \in (p - t + 1)..p : b[j] = 9
    IN  [j \in 1..p |-> IF j > p - nines THEN 0 ELSE IF j = p - nines THEN b[j] + 1 ELSE b[j]]

\* the digits kept, without the zeros at either end, and decpt: the float is
\* 0.digits * 10^decpt; kept stands for a number of width places * 10^x
DigitsKept(kept, width, x) ==
    LET first == CHOOSE k \in 1..Len(kept) : kept[k] /= 0 /\ \A j \in 1..(k - 1) : kept[j] = 0
        last == CHOOSE k \in 1..Len(kept) :
                    kept[k] /= 0 /\ \A j \in (k + 1)..Len(kept) : kept[j] = 0
    IN  [digits |-> [k \in 1..(last - first + 1) |-> DigitSeq[kept[first + k - 1] + 1]],
         decpt |-> width - first + 1 + x]

\* the shortest cut of b within a..c, and of two such the nearer to b
ShortestAt(a, b, c, even, x, lo, hi, p) ==
    DigitsKept(IF HighFits(b, c, even, hi, p)
                  /\ (~LowFits(a, even, lo, p) \/ AboveHalf(b, p))
               THEN PlusOne(b, p)
               ELSE SubSeq(b, 1, p),
               Len(b), x)

ShortestFrom(a, b, c, even, x, lo, hi) ==
    ShortestAt(a, b, c, even, x, lo, hi,
               CHOOSE p \in 1..Len(b) :
                   /\ LowFits(a, even, lo, p) \/ HighFits(b, c, even, hi, p)
                   /\ \A j \in 1..(p - 1) :
                          ~(LowFits(a, even, lo, j) \/ HighFits(b, c, even, hi, j)))

ShortestIn(a, b, c, even, x) ==
    ShortestFrom(a, b, c, even, x, FirstDiff(a, b), FirstDiff(b, c))

\* the shortest digits for the number b * 10^x, low and high the distances
\* to the ends of the numbers that round to it
Shortest(b, low, high, even, x, width) ==
    ShortestIn(DigitsOf(Minus(b, low), width), DigitsOf(b, width),
               DigitsOf(Plus(b, high), width), even, x)

\* the float q * 2^e is 4 * q * u, and half the distance to the next float
\* 2 * u, in units of 10^x; the float below a power of two is half as far
ShortestWith(q, e, u, x) ==
    Shortest(Times(Product(q, u), 4),
             IF e > -1074 /\ Compared(q, Power(2, 52)) = 0 THEN u ELSE Times(u, 2),
             Times(u, 2), Limb(q, 1) % 2 = 0, x, Len(q) + Len(u) + 2)

\* float_repr_style 'short': the shortest digits that round to q * 2^e
ShortestDigits(q, e) ==
    IF e >= 2 THEN ShortestWith(q, e, Power(2, e - 2), 0)
    ELSE ShortestWith(q, e, Power(5, 2 - e), e - 2)

\* repr of the float 0.digits * 10^decpt, digits without zeros at either end
\* (format_float_short, mode 'r'): an exponent when decpt is outside -3..16
FloatDigitsRepr(sign, digits, decpt) ==
    IF decpt <= -4 \/ decpt > 16
    THEN sign \o <<digits[1]>>
         \o (IF Len(digits) > 1 THEN <<".">> \o Tail(digits) ELSE <<>>)
         \o <<"e", IF decpt - 1 < 0 THEN "-" ELSE "+">>
         \o (LET x == IF decpt - 1 < 0 THEN 1 - decpt ELSE decpt - 1
             IN  IF x < 10 THEN <<"0">> \o DecimalString(x) ELSE DecimalString(x))
    ELSE IF decpt <= 0 THEN sign \o Chars("0.") \o Zeros(-decpt) \o digits
    ELSE IF decpt >= Len(digits)
         THEN sign \o digits \o Zeros(decpt - Len(digits)) \o Chars(".0")
    ELSE sign \o SubSeq(digits, 1, decpt) \o <<".">> \o SubSeq(digits, decpt + 1, Len(digits))

FloatText(sign, short) == FloatDigitsRepr(sign, short.digits, short.decpt)

\* repr of the float x
ReprOf(sign, x) ==
    IF x.inf THEN sign \o Chars("inf")
    ELSE IF x.q = <<>> THEN sign \o Chars("0.0")
    ELSE FloatText(sign, ShortestDigits(x.q, x.e))

\* repr(float(digits * 10^e10)) for digits without zeros at either end: no
\* float is as large as 10^310, and a number below 10^-325 rounds to 0.  The
\* digits after the first 800 do not change the rounding unless they are
\* all 0, and they stand as one digit
ReprNearest(sign, digits, e10) ==
    IF Len(digits) + e10 - 1 > 309 THEN sign \o Chars("inf")
    ELSE IF Len(digits) + e10 - 1 < -325 THEN sign \o Chars("0.0")
    ELSE IF Len(digits) > 800
         THEN ReprOf(sign, Nearest(Fraction(Append(SubSeq(digits, 1, 800), "1"),
                                            e10 + Len(digits) - 801),
                                   Len(digits) + e10 - 1))
    ELSE ReprOf(sign, Nearest(Fraction(digits, e10), Len(digits) + e10 - 1))

\* repr(float(literal)) for the literal with integer digits int, fraction
\* digits frac and exponent text exp
FloatRepr(sign, int, frac, exp) ==
    LET all == int \o frac
        first == CHOOSE k \in 1..Len(all) : all[k] /= "0" /\ \A j \in 1..(k - 1) : all[j] = "0"
        last == CHOOSE k \in 1..Len(all) :
                    all[k] /= "0" /\ \A j \in (k + 1)..Len(all) : all[j] = "0"
    IN  IF \A k \in 1..Len(all) : all[k] = "0" THEN sign \o Chars("0.0")
        ELSE ReprNearest(sign, SubSeq(all, first, last),
                         ExponentOf(exp) - Len(frac) + (Len(all) - last))

\* the number whose text spans offsets i..end, with the integer part ending
\* at a and the fraction at b; an int of more than 4300 digits is refused
NumberValue(s, i, a, b, end) ==
    LET sign == IF s[i + 1] = "-" THEN <<"-">> ELSE <<>>
        int == Slice(s, i + Len(sign), a)
    IN  IF end = a
        THEN IF Len(int) > 4300 THEN ParseError("ValueError")
             ELSE Parsed([t |-> "int", v |-> IF int = <<"0">> THEN int ELSE sign \o int], end)
        ELSE Parsed([t |-> "float",
                     v |-> FloatRepr(sign, int, Slice(s, a + 1, b),
                                     IF end > b THEN Slice(s, b + 1, end) ELSE <<>>)], end)

\* _match_number: the number at offset i
JsonNumberFrom(s, i, a) ==
    IF a < 0 THEN ParseError(StopIteration)
    ELSE NumberValue(s, i, a, FractionEnd(s, a), ExponentEnd(s, FractionEnd(s, a)))

JsonNumber(s, i) == JsonNumberFrom(s, i, IntegerEnd(s, i))

\* the words that stand for a value; the scanner makes the value itself, or
\* calls parse_constant for it
JsonWords ==
    <<[word |-> Chars("null"), v |-> PyNone, called |-> FALSE],
      [word |-> Chars("true"), v |-> [t |-> "bool", v |-> TRUE], called |-> FALSE],
      [word |-> Chars("false"), v |-> [t |-> "bool", v |-> FALSE], called |-> FALSE],
      [word |-> Chars("NaN"), v |-> [t |-> "float", v |-> Chars("nan")], called |-> TRUE],
      [word |-> Chars("Infinity"), v |-> [t |-> "float", v |-> Chars("inf")], called |-> TRUE],
      [word |-> Chars("-Infinity"), v |-> [t |-> "float", v |-> Chars("-inf")],
       called |-> TRUE]>>

\* d[key] = value on the pairs of a dict
DictSet(pairs, key, value) ==
    IF \E k \in 1..Len(pairs) : pairs[k][1] = key
    THEN [k \in 1..Len(pairs) |-> IF pairs[k][1] = key THEN <<key, value>> ELSE pairs[k]]
    ELSE Append(pairs, <<key, value>>)

\* An array or an object takes one of the calls the interpreter allows while
\* it is read (Py_EnterRecursiveCall in scan_once), and room is the number
\* still allowed: the recursion limit less the depth in use.  The call of
\* parse_constant for NaN, Infinity and -Infinity takes one.  The scanner
\* raises a JSONDecodeError by calling the class (raise_errmsg), which takes
\* three calls more, and with fewer left the RecursionError of that call
\* comes in its place.
\* raise_errmsg with room calls left
ErrMsg(room) == ParseError(IF room >= 3 THEN JSONDecodeError ELSE RecursionError)

\* scanstring called with room calls left: the string after offset i
ScannedString(s, i, room) ==
    LET r == JsonString(s, i, <<>>)
    IN  IF r.err = JSONDecodeError THEN ErrMsg(room) ELSE r

RECURSIVE JsonValue(_, _, _)
RECURSIVE JsonArray(_, _, _)
RECURSIVE JsonObject(_, _, _)
RECURSIVE JsonItems(_, _, _, _)
RECURSIVE JsonAfterItem(_, _, _, _)
RECURSIVE JsonMembers(_, _, _, _)
RECURSIVE JsonAfterKey(_, _, _, _)
RECURSIVE JsonAfterMember(_, _, _, _, _)

\* scan_once: the value at offset i with room calls left; where no value
\* starts it raises StopIteration, which raw_decode turns into the error
JsonValue(s, i, room) ==
    IF i >= Len(s) THEN ParseError(StopIteration)
    ELSE IF s[i + 1] = "\"" THEN ScannedString(s, i + 1, room)
    ELSE IF s[i + 1] = "[" THEN IF room = 0 THEN ParseError(RecursionError)
                                ELSE JsonArray(s, JsonSkip(s, i + 1), room - 1)
    ELSE IF s[i + 1] = "{" THEN IF room = 0 THEN ParseError(RecursionError)
                                ELSE JsonObject(s, JsonSkip(s, i + 1), room - 1)
    ELSE IF \E w \in 1..Len(JsonWords) : StrAt(s, i, JsonWords[w].word, FALSE)
         THEN LET w == CHOOSE w \in 1..Len(JsonWords) : StrAt(s, i, JsonWords[w].word, FALSE)
              IN  IF JsonWords[w].called /\ room = 0 THEN ParseError(RecursionError)
                  ELSE Parsed(JsonWords[w].v, i + Len(JsonWords[w].word))
    ELSE JsonNumber(s, i)

\* _parse_array: the items of an array from offset i on, after the opening
\* bracket and the whitespace behind it
JsonArray(s, i, room) ==
    IF i < Len(s) /\ s[i + 1] = "]" THEN Parsed([t |-> "list", v |-> <<>>], i + 1)
    ELSE JsonItems(s, JsonValue(s, i, room), <<>>, room)

\* after the item that gave r: a comma and the next item, or the closing bracket
JsonItems(s, r, items, room) ==
    IF r.err /= "none" THEN r
    ELSE JsonAfterItem(s, JsonSkip(s, r.end), Append(items, r.v), room)

JsonAfterItem(s, i, items, room) ==
    IF i >= Len(s) THEN ErrMsg(room)
    ELSE IF s[i + 1] = "]" THEN Parsed([t |-> "list", v |-> items], i + 1)
    ELSE IF s[i + 1] = ","
         THEN JsonItems(s, JsonValue(s, JsonSkip(s, i + 1), room), items, room)
    ELSE ErrMsg(room)

\* _parse_object: the members of an object from offset i on, after the
\* opening brace and the whitespace behind it
JsonObject(s, i, room) ==
    IF i < Len(s) /\ s[i + 1] = "}" THEN Parsed([t |-> "dict", v |-> <<>>], i + 1)
    ELSE JsonMembers(s, i, <<>>, room)

\* a member at offset i: a string, a colon, a value
JsonMembers(s, i, pairs, room) ==
    IF i >= Len(s) \/ s[i + 1] /= "\"" THEN ErrMsg(room)
    ELSE JsonAfterKey(s, ScannedString(s, i + 1, room), pairs, room)

JsonAfterKey(s, k, pairs, room) ==
    IF k.err /= "none" THEN k
    ELSE IF JsonSkip(s, k.end) >= Len(s) \/ s[JsonSkip(s, k.end) + 1] /= ":"
         THEN ErrMsg(room)
    ELSE JsonAfterMember(s, k.v.v, JsonValue(s, JsonSkip(s, JsonSkip(s, k.end) + 1), room),
                         pairs, room)

\* after the member key: r, a comma and the next member, or the closing brace
JsonAfterMember(s, key, r, pairs, room) ==
    IF r.err /= "none" THEN r
    ELSE IF JsonSkip(s, r.end) >= Len(s) THEN ErrMsg(room)
    ELSE IF s[JsonSkip(s, r.end) + 1] = "}"
         THEN Parsed([t |-> "dict", v |-> DictSet(pairs, key, r.v)], JsonSkip(s, r.end) + 1)
    ELSE IF s[JsonSkip(s, r.end) + 1] = ","
         THEN JsonMembers(s, JsonSkip(s, JsonSkip(s, r.end) + 1), DictSet(pairs, key, r.v),
                          room)
    ELSE ErrMsg(room)

BOM == "U+FEFF"

\* JSONDecoder.decode around the result r of scan_once: raw_decode raises
\* JSONDecodeError for StopIteration, and decode for text after the value;
\* raised there, the error takes two calls, and decode is one call above
\* scan_once
JsonDocument(s, r, room) ==
    IF r.err = StopIteration
    THEN ParseError(IF room >= 2 THEN JSONDecodeError ELSE RecursionError)
    ELSE IF r.err /= "none" THEN r
    ELSE IF JsonSkip(s, r.end) /= Len(s)
         THEN ParseError(IF room >= 1 THEN JSONDecodeError ELSE RecursionError)
    ELSE r

\* json.loads with room calls left to scan_once: err is the exception
\* raised, or "none" and v is the value
JsonLoads(s, room) ==
    IF s /= <<>> /\ s[1] = BOM THEN ParseError(JSONDecodeError)
    ELSE JsonDocument(s, JsonValue(s, JsonSkip(s, 0), room), room)

\* json.loads(search_patterns) at line 25.  The scripts leave the recursion
\* limit of the interpreter at its 1000 calls, and with main() run as the
\* script, extract_quotations_for_figure within it and json.loads, decode and
\* raw_decode within that, scan_once has 993 left
json_loads(search_patterns) == JsonLoads(search_patterns, 993)

\* the code points beyond ASCII that str.isprintable() refuses
NonPrintableRanges == {
    <<128, 160, 1, 0>>, <<173, 173, 1, 0>>, <<888, 889, 1, 0>>, <<896, 899, 1, 0>>, <<907,
    907, 1, 0>>, <<909, 909, 1, 0>>, <<930, 930, 1, 0>>, <<1328, 1328, 1, 0>>, <<1367, 1368,
    1, 0>>, <<1419, 1420, 1, 0>>, <<1424, 1424, 1, 0>>, <<1480, 1487, 1, 0>>, <<1515, 1518,
    1, 0>>, <<1525, 1541, 1, 0>>, <<1564, 1564, 1, 0>>, <<1757, 1757, 1, 0>>, <<1806, 1807,
    1, 0>>, <<1867, 1868, 1, 0>>, <<1970, 1983, 1, 0>>, <<2043, 2044, 1, 0>>, <<2094, 2095,
    1, 0>>, <<2111, 2111, 1, 0>>, <<2140, 2141, 1, 0>>, <<2143, 2143, 1, 0>>, <<2155, 2159,
    1, 0>>, <<2191, 2199, 1, 0>>, <<2274, 2274, 1, 0>>, <<2436, 2436, 1, 0>>, <<2445, 2446,
    1, 0>>, <<2449, 2450, 1, 0>>, <<2473, 2473, 1, 0>>, <<2481, 2481, 1, 0>>, <<2483, 2485,
    1, 0>>, <<2490, 2491, 1, 0>>, <<2501, 2502, 1, 0>>, <<2505, 2506, 1, 0>>, <<2511, 2518,
    1, 0>>, <<2520, 2523, 1, 0>>, <<2526, 2526, 1, 0>>, <<2532, 2533, 1, 0>>, <<2559, 2560,
    1, 0>>, <<2564, 2564, 1, 0>>, <<2571, 2574, 1, 0>>, <<2577, 2578, 1, 0>>, <<2601, 2601,
    1, 0>>, <<2609, 2609, 1, 0>>, <<2612, 2612, 1, 0>>, <<2615, 2615, 1, 0>>, <<2618, 2619,
    1, 0>>, <<2621, 2621, 1, 0>>, <<2627, 2630, 1, 0>>, <<2633, 2634, 1, 0>>, <<2638, 2640,
    1, 0>>, <<2642, 2648, 1, 0>>, <<2653, 2653, 1, 0>>, <<2655, 2661, 1, 0>>, <<2679, 2688,
    1, 0>>, <<2692, 2692, 1, 0>>, <<2702, 2702, 1, 0>>, <<2706, 2706, 1, 0>>, <<2729, 2729,
    1, 0>>, <<2737, 2737, 1, 0>>, <<2740, 2740, 1, 0>>, <<2746, 2747, 1, 0>>, <<2758, 2758,
    1, 0>>, <<2762, 2762, 1, 0>>, <<2766, 2767, 1, 0>>, <<2769, 2783, 1, 0>>, <<2788, 2789,
    1, 0>>, <<2802, 2808, 1, 0>>, <<2816, 2816, 1, 0>>, <<2820, 2820, 1, 0>>, <<2829, 2830,
    1, 0>>, <<2833, 2834, 1, 0>>, <<2857, 2857, 1, 0>>, <<2865, 2865, 1, 0>>, <<2868, 2868,
    1, 0>>, <<2874, 2875, 1, 0>>, <<2885, 2886, 1, 0>>, <<2889, 2890, 1, 0>>, <<2894, 2900,
    1, 0>>, <<2904, 2907, 1, 0>>, <<2910, 2910, 1, 0>>, <<2916, 2917, 1, 0>>, <<2936, 2945,
    1, 0>>, <<2948, 2948, 1, 0>>, <<2955, 2957, 1, 0>>, <<2961, 2961, 1, 0>>, <<2966, 2968,
    1, 0>>, <<2971, 2971, 1, 0>>, <<2973, 2973, 1, 0>>, <<2976, 2978, 1, 0>>, <<2981, 2983,
    1, 0>>, <<2987, 2989, 1, 0>>, <<3002, 3005, 1, 0>>, <<3011, 3013, 1, 0>>, <<3017, 3017,
    1, 0>>, <<3022, 3023, 1, 0>>, <<3025, 3030, 1, 0>>, <<3032, 3045, 1, 0>>, <<3067, 3071,
    1, 0>>, <<3085, 3085, 1, 0>>, <<3089, 3089, 1, 0>>, <<3113, 3113, 1, 0>>, <<3130, 3131,
    1, 0>>, <<3141, 3141, 1, 0>>, <<3145, 3145, 1, 0>>, <<3150, 3156, 1, 0>>, <<3159, 3159,
    1, 0>>, <<3163, 3164, 1, 0>>, <<3166, 3167, 1, 0>>, <<3172, 3173, 1, 0>>, <<3184, 3190,
    1, 0>>, <<3213, 3213, 1, 0>>, <<3217, 3217, 1, 0>>, <<3241, 3241, 1, 0>>, <<3252, 3252,
    1, 0>>, <<3258, 3259, 1, 0>>, <<3269, 3269, 1, 0>>, <<3273, 3273, 1, 0>>, <<3278, 3284,
    1, 0>>, <<3287, 3292, 1, 0>>, <<3295, 3295, 1, 0>>, <<3300, 3301, 1, 0>>, <<3312, 3312,
    1, 0>>, <<3315, 3327, 1, 0>>, <<3341, 3341, 1, 0>>, <<3345, 3345, 1, 0>>, <<3397, 3397,
    1, 0>>, <<3401, 3401, 1, 0>>, <<3408, 3411, 1, 0>>, <<3428, 3429, 1, 0>>, <<3456, 3456,
    1, 0>>, <<3460, 3460, 1, 0>>, <<3479, 3481, 1, 0>>, <<3506, 3506, 1, 0>>, <<3516, 3516,
    1, 0>>, <<3518, 3519, 1, 0>>, <<3527, 3529, 1, 0>>, <<3531, 3534, 1, 0>>, <<3541, 3541,
    1, 0>>, <<3543, 3543, 1, 0>>, <<3552, 3557, 1, 0>>, <<3568, 3569, 1, 0>>, <<3573, 3584,
    1, 0>>, <<3643, 3646, 1, 0>>, <<3676, 3712, 1, 0>>, <<3715, 3715, 1, 0>>, <<3717, 3717,
    1, 0>>, <<3723, 3723, 1, 0>>, <<3748, 3748, 1, 0>>, <<3750, 3750, 1, 0>>, <<3774, 3775,
    1, 0>>, <<3781, 3781, 1, 0>>, <<3783, 3783, 1, 0>>, <<3790, 3791, 1, 0>>, <<3802, 3803,
    1, 0>>, <<3808, 3839, 1, 0>>, <<3912, 3912, 1, 0>>, <<3949, 3952, 1, 0>>, <<3992, 3992,
    1, 0>>, <<4029, 4029, 1, 0>>, <<4045, 4045, 1, 0>>, <<4059, 4095, 1, 0>>, <<4294, 4294,
    1, 0>>, <<4296, 4300, 1, 0>>, <<4302, 4303, 1, 0>>, <<4681, 4681, 1, 0>>, <<4686, 4687,
    1, 0>>, <<4695, 4695, 1, 0>>, <<4697, 4697, 1, 0>>, <<4702, 4703, 1, 0>>, <<4745, 4745,
    1, 0>>, <<4750, 4751, 1, 0>>, <<4785, 4785, 1, 0>>, <<4790, 4791, 1, 0>>, <<4799, 4799,
    1, 0>>, <<4801, 4801, 1, 0>>, <<4806, 4807, 1, 0>>, <<4823, 4823, 1, 0>>, <<4881, 4881,
    1, 0>>, <<4886, 4887, 1, 0>>, <<4955, 4956, 1, 0>>, <<4989, 4991, 1, 0>>, <<5018, 5023,
    1, 0>>, <<5110, 5111, 1, 0>>, <<5118, 5119, 1, 0>>, <<5760, 5760, 1, 0>>, <<5789, 5791,
    1, 0>>, <<5881, 5887, 1, 0>>, <<5910, 5918, 1, 0>>, <<5943, 5951, 1, 0>>, <<5972, 5983,
    1, 0>>, <<5997, 5997, 1, 0>>, <<6001, 6001, 1, 0>>, <<6004, 6015, 1, 0>>, <<6110, 6111,
    1, 0>>, <<6122, 6127, 1, 0>>, <<6138, 6143, 1, 0>>, <<6158, 6158, 1, 0>>, <<6170, 6175,
    1, 0>>, <<6265, 6271, 1, 0>>, <<6315, 6319, 1, 0>>, <<6390, 6399, 1, 0>>, <<6431, 6431,
    1, 0>>, <<6444, 6447, 1, 0>>, <<6460, 6463, 1, 0>>, <<6465, 6467, 1, 0>>, <<6510, 6511,
    1, 0>>, <<6517, 6527, 1, 0>>, <<6572, 6575, 1, 0>>, <<6602, 6607, 1, 0>>, <<6619, 6621,
    1, 0>>, <<6684, 6685, 1, 0>>, <<6751, 6751, 1, 0>>, <<6781, 6782, 1, 0>>, <<6794, 6799,
    1, 0>>, <<6810, 6815, 1, 0>>, <<6830, 6831, 1, 0>>, <<6863, 6911, 1, 0>>, <<6989, 6991,
    1, 0>>, <<7039, 7039, 1, 0>>, <<7156, 7163, 1, 0>>, <<7224, 7226, 1, 0>>, <<7242, 7244,
    1, 0>>, <<7305, 7311, 1, 0>>, <<7355, 7356, 1, 0>>, <<7368, 7375, 1, 0>>, <<7419, 7423,
    1, 0>>, <<7958, 7959, 1, 0>>, <<7966, 7967, 1, 0>>, <<8006, 8007, 1, 0>>, <<8014, 8015,
    1, 0>>, <<8024, 8024, 1, 0>>, <<8026, 8026, 1, 0>>, <<8028, 8028, 1, 0>>, <<8030, 8030,
    1, 0>>, <<8062, 8063, 1, 0>>, <<8117, 8117, 1, 0>>, <<8133, 8133, 1, 0>>, <<8148, 8149,
    1, 0>>, <<8156, 8156, 1, 0>>, <<8176, 8177, 1, 0>>, <<8181, 8181, 1, 0>>, <<8191, 8207,
    1, 0>>, <<8232, 8239, 1, 0>>, <<8287, 8303, 1, 0>>, <<8306, 8307, 1, 0>>, <<8335, 8335,
    1, 0>>, <<8349, 8351, 1, 0>>, <<8385, 8399, 1, 0>>, <<8433, 8447, 1, 0>>, <<8588, 8591,
    1, 0>>, <<9255, 9279, 1, 0>>, <<9291, 9311, 1, 0>>, <<11124, 11125, 1, 0>>, <<11158,
    11158, 1, 0>>, <<11508, 11512, 1, 0>>, <<11558, 11558, 1, 0>>, <<11560, 11564, 1, 0>>,
    <<11566, 11567, 1, 0>>, <<11624, 11630, 1, 0>>, <<11633, 11646, 1, 0>>, <<11671, 11679,
    1, 0>>, <<11687, 11687, 1, 0>>, <<11695, 11695, 1, 0>>, <<11703, 11703, 1, 0>>, <<11711,
    11711, 1, 0>>, <<11719, 11719, 1, 0>>, <<11727, 11727, 1, 0>>, <<11735, 11735, 1, 0>>,
    <<11743, 11743, 1, 0>>, <<11870, 11903, 1, 0>>, <<11930, 11930, 1, 0>>, <<12020, 12031,
    1, 0>>, <<12246, 12271, 1, 0>>, <<12284, 12288, 1, 0>>, <<12352, 12352, 1, 0>>, <<12439,
    12440, 1, 0>>, <<12544, 12548, 1, 0>>, <<12592, 12592, 1, 0>>, <<12687, 12687, 1, 0>>,
    <<12772, 12783, 1, 0>>, <<12831, 12831, 1, 0>>, <<42125, 42127, 1, 0>>, <<42183, 42191,
    1, 0>>, <<42540, 42559, 1, 0>>, <<42744, 42751, 1, 0>>, <<42955, 42959, 1, 0>>, <<42962,
    42962, 1, 0>>, <<42964, 42964, 1, 0>>, <<42970, 42993, 1, 0>>, <<43053, 43055, 1, 0>>,
    <<43066, 43071, 1, 0>>, <<43128, 43135, 1, 0>>, <<43206, 43213, 1, 0>>, <<43226, 43231,
    1, 0>>, <<43348, 43358, 1, 0>>, <<43389, 43391, 1, 0>>, <<43470, 43470, 1, 0>>, <<43482,
    43485, 1, 0>>, <<43519, 43519, 1, 0>>, <<43575, 43583, 1, 0>>, <<43598, 43599, 1, 0>>,
    <<43610, 43611, 1, 0>>, <<43715, 43738, 1, 0>>, <<43767, 43776, 1, 0>>, <<43783, 43784,
    1, 0>>, <<43791, 43792, 1, 0>>, <<43799, 43807, 1, 0>>, <<43815, 43815, 1, 0>>, <<43823,
    43823, 1, 0>>, <<43884, 43887, 1, 0>>, <<44014, 44015, 1, 0>>, <<44026, 44031, 1, 0>>,
    <<55204, 55215, 1, 0>>, <<55239, 55242, 1, 0>>, <<55292, 63743, 1, 0>>, <<64110, 64111,
    1, 0>>, <<64218, 64255, 1, 0>>, <<64263, 64274, 1, 0>>, <<64280, 64284, 1, 0>>, <<64311,
    64311, 1, 0>>, <<64317, 64317, 1, 0>>, <<64319, 64319, 1, 0>>, <<64322, 64322, 1, 0>>,
    <<64325, 64325, 1, 0>>, <<64451, 64466, 1, 0>>, <<64912, 64913, 1, 0>>, <<64968, 64974,
    1, 0>>, <<64976, 65007, 1, 0>>, <<65050, 65055, 1, 0>>, <<65107, 65107, 1, 0>>, <<65127,
    65127, 1, 0>>, <<65132, 65135, 1, 0>>, <<65141, 65141, 1, 0>>, <<65277, 65280, 1, 0>>,
    <<65471, 65473, 1, 0>>, <<65480, 65481, 1, 0>>, <<65488, 65489, 1, 0>>, <<65496, 65497,
    1, 0>>, <<65501, 65503, 1, 0>>, <<65511, 65511, 1, 0>>, <<65519, 65531, 1, 0>>, <<65534,
    65535, 1, 0>>, <<65548, 65548, 1, 0>>, <<65575, 65575, 1, 0>>, <<65595, 65595, 1, 0>>,
    <<65598, 65598, 1, 0>>, <<65614, 65615, 1, 0>>, <<65630, 65663, 1, 0>>, <<65787, 65791,
    1, 0>>, <<65795, 65798, 1, 0>>, <<65844, 65846, 1, 0>>, <<65935, 65935, 1, 0>>, <<65949,
    65951, 1, 0>>, <<65953, 65999, 1, 0>>, <<66046, 66175, 1, 0>>, <<66205, 66207, 1, 0>>,
    <<66257, 66271, 1, 0>>, <<66300, 66303, 1, 0>>, <<66340, 66348, 1, 0>>, <<66379, 66383,
    1, 0>>, <<66427, 66431, 1, 0>>, <<66462, 66462, 1, 0>>, <<66500, 66503, 1, 0>>, <<66518,
    66559, 1, 0>>, <<66718, 66719, 1, 0>>, <<66730, 66735, 1, 0>>, <<66772, 66775, 1, 0>>,
    <<66812, 66815, 1, 0>>, <<66856, 66863, 1, 0>>, <<66916, 66926, 1, 0>>, <<66939, 66939,
    1, 0>>, <<66955, 66955, 1, 0>>, <<66963, 66963, 1, 0>>, <<66966, 66966, 1, 0>>, <<66978,
    66978, 1, 0>>, <<66994, 66994, 1, 0>>, <<67002, 67002, 1, 0>>, <<67005, 67071, 1, 0>>,
    <<67383, 67391, 1, 0>>, <<67414, 67423, 1, 0>>, <<67432, 67455, 1, 0>>, <<67462, 67462,
    1, 0>>, <<67505, 67505, 1, 0>>, <<67515, 67583, 1, 0>>, <<67590, 67591, 1, 0>>, <<67593,
    67593, 1, 0>>, <<67638, 67638, 1, 0>>, <<67641, 67643, 1, 0>>, <<67645, 67646, 1, 0>>,
    <<67670, 67670, 1, 0>>, <<67743, 67750, 1, 0>>, <<67760, 67807, 1, 0>>, <<67827, 67827,
    1, 0>>, <<67830, 67834, 1, 0>>, <<67868, 67870, 1, 0>>, <<67898, 67902, 1, 0>>, <<67904,
    67967, 1, 0>>, <<68024, 68027, 1, 0>>, <<68048, 68049, 1, 0>>, <<68100, 68100, 1, 0>>,
    <<68103, 68107, 1, 0>>, <<68116, 68116, 1, 0>>, <<68120, 68120, 1, 0>>, <<68150, 68151,
    1, 0>>, <<68155, 68158, 1, 0>>, <<68169, 68175, 1, 0>>, <<68185, 68191, 1, 0>>, <<68256,
    68287, 1, 0>>, <<68327, 68330, 1, 0>>, <<68343, 68351, 1, 0>>, <<68406, 68408, 1, 0>>,
    <<68438, 68439, 1, 0>>, <<68467, 68471, 1, 0>>, <<68498, 68504, 1, 0>>, <<68509, 68520,
    1, 0>>, <<68528, 68607, 1, 0>>, <<68681, 68735, 1, 0>>, <<68787, 68799, 1, 0>>, <<68851,
    68857, 1, 0>>, <<68904, 68911, 1, 0>>, <<68922, 69215, 1, 0>>, <<69247, 69247, 1, 0>>,
    <<69290, 69290, 1, 0>>, <<69294, 69295, 1, 0>>, <<69298, 69375, 1, 0>>, <<69416, 69423,
    1, 0>>, <<69466, 69487, 1, 0>>, <<69514, 69551, 1, 0>>, <<69580, 69599, 1, 0>>, <<69623,
    69631, 1, 0>>, <<69710, 69713, 1, 0>>, <<69750, 69758, 1, 0>>, <<69821, 69821, 1, 0>>,
    <<69827, 69839, 1, 0>>, <<69865, 69871, 1, 0>>, <<69882, 69887, 1, 0>>, <<69941, 69941,
    1, 0>>, <<69960, 69967, 1, 0>>, <<70007, 70015, 1, 0>>, <<70112, 70112, 1, 0>>, <<70133,
    70143, 1, 0>>, <<70162, 70162, 1, 0>>, <<70207, 70271, 1, 0>>, <<70279, 70279, 1, 0>>,
    <<70281, 70281, 1, 0>>, <<70286, 70286, 1, 0>>, <<70302, 70302, 1, 0>>, <<70314, 70319,
    1, 0>>, <<70379, 70383, 1, 0>>, <<70394, 70399, 1, 0>>, <<70404, 70404, 1, 0>>, <<70413,
    70414, 1, 0>>, <<70417, 70418, 1, 0>>, <<70441, 70441, 1, 0>>, <<70449, 70449, 1, 0>>,
    <<70452, 70452, 1, 0>>, <<70458, 70458, 1, 0>>, <<70469, 70470, 1, 0>>, <<70473, 70474,
    1, 0>>, <<70478, 70479, 1, 0>>, <<70481, 70486, 1, 0>>, <<70488, 70492, 1, 0>>, <<70500,
    70501, 1, 0>>, <<70509, 70511, 1, 0>>, <<70517, 70655, 1, 0>>, <<70748, 70748, 1, 0>>,
    <<70754, 70783, 1, 0>>, <<70856, 70863, 1, 0>>, <<70874, 71039, 1, 0>>, <<71094, 71095,
    1, 0>>, <<71134, 71167, 1, 0>>, <<71237, 71247, 1, 0>>, <<71258, 71263, 1, 0>>, <<71277,
    71295, 1, 0>>, <<71354, 71359, 1, 0>>, <<71370, 71423, 1, 0>>, <<71451, 71452, 1, 0>>,
    <<71468, 71471, 1, 0>>, <<71495, 71679, 1, 0>>, <<71740, 71839, 1, 0>>, <<71923, 71934,
    1, 0>>, <<71943, 71944, 1, 0>>, <<71946, 71947, 1, 0>>, <<71956, 71956, 1, 0>>, <<71959,
    71959, 1, 0>>, <<71990, 71990, 1, 0>>, <<71993, 71994, 1, 0>>, <<72007, 72015, 1, 0>>,
    <<72026, 72095, 1, 0>>, <<72104, 72105, 1, 0>>, <<72152, 72153, 1, 0>>, <<72165, 72191,
    1, 0>>, <<72264, 72271, 1, 0>>, <<72355, 72367, 1, 0>>, <<72441, 72703, 1, 0>>, <<72713,
    72713, 1, 0>>, <<72759, 72759, 1, 0>>, <<72774, 72783, 1, 0>>, <<72813, 72815, 1, 0>>,
    <<72848, 72849, 1, 0>>, <<72872, 72872, 1, 0>>, <<72887, 72959, 1, 0>>, <<72967, 72967,
    1, 0>>, <<72970, 72970, 1, 0>>, <<73015, 73017, 1, 0>>, <<73019, 73019, 1, 0>>, <<73022,
    73022, 1, 0>>, <<73032, 73039, 1, 0>>, <<73050, 73055, 1, 0>>, <<73062, 73062, 1, 0>>,
    <<73065, 73065, 1, 0>>, <<73103, 73103, 1, 0>>, <<73106, 73106, 1, 0>>, <<73113, 73119,
    1, 0>>, <<73130, 73439, 1, 0>>, <<73465, 73647, 1, 0>>, <<73649, 73663, 1, 0>>, <<73714,
    73726, 1, 0>>, <<74650, 74751, 1, 0>>, <<74863, 74863, 1, 0>>, <<74869, 74879, 1, 0>>,
    <<75076, 77711, 1, 0>>, <<77811, 77823, 1, 0>>, <<78895, 82943, 1, 0>>, <<83527, 92159,
    1, 0>>, <<92729, 92735, 1, 0>>, <<92767, 92767, 1, 0>>, <<92778, 92781, 1, 0>>, <<92863,
    92863, 1, 0>>, <<92874, 92879, 1, 0>>, <<92910, 92911, 1, 0>>, <<92918, 92927, 1, 0>>,
    <<92998, 93007, 1, 0>>, <<93018, 93018, 1, 0>>, <<93026, 93026, 1, 0>>, <<93048, 93052,
    1, 0>>, <<93072, 93759, 1, 0>>, <<93851, 93951, 1, 0>>, <<94027, 94030, 1, 0>>, <<94088,
    94094, 1, 0>>, <<94112, 94175, 1, 0>>, <<94181, 94191, 1, 0>>, <<94194, 94207, 1, 0>>,
    <<100344, 100351, 1, 0>>, <<101590, 101631, 1, 0>>, <<101641, 110575, 1, 0>>, <<110580,
    110580, 1, 0>>, <<110588, 110588, 1, 0>>, <<110591, 110591, 1, 0>>, <<110883, 110927, 1,
    0>>, <<110931, 110947, 1, 0>>, <<110952, 110959, 1, 0>>, <<111356, 113663, 1, 0>>,
    <<113771, 113775, 1, 0>>, <<113789, 113791, 1, 0>>, <<113801, 113807, 1, 0>>, <<113818,
    113819, 1, 0>>, <<113824, 118527, 1, 0>>, <<118574, 118575, 1, 0>>, <<118599, 118607, 1,
    0>>, <<118724, 118783, 1, 0>>, <<119030, 119039, 1, 0>>, <<119079, 119080, 1, 0>>,
    <<119155, 119162, 1, 0>>, <<119275, 119295, 1, 0>>, <<119366, 119519, 1, 0>>, <<119540,
    119551, 1, 0>>, <<119639, 119647, 1, 0>>, <<119673, 119807, 1, 0>>, <<119893, 119893, 1,
    0>>, <<119965, 119965, 1, 0>>, <<119968, 119969, 1, 0>>, <<119971, 119972, 1, 0>>,
    <<119975, 119976, 1, 0>>, <<119981, 119981, 1, 0>>, <<119994, 119994, 1, 0>>, <<119996,
    119996, 1, 0>>, <<120004, 120004, 1, 0>>, <<120070, 120070, 1, 0>>, <<120075, 120076, 1,
    0>>, <<120085, 120085, 1, 0>>, <<120093, 120093, 1, 0>>, <<120122, 120122, 1, 0>>,
    <<120127, 120127, 1, 0>>, <<120133, 120133, 1, 0>>, <<120135, 120137, 1, 0>>, <<120145,
    120145, 1, 0>>, <<120486, 120487, 1, 0>>, <<120780, 120781, 1, 0>>, <<121484, 121498, 1,
    0>>, <<121504, 121504, 1, 0>>, <<121520, 122623, 1, 0>>, <<122655, 122879, 1, 0>>,
    <<122887, 122887, 1, 0>>, <<122905, 122906, 1, 0>>, <<122914, 122914, 1, 0>>, <<122917,
    122917, 1, 0>>, <<122923, 123135, 1, 0>>, <<123181, 123183, 1, 0>>, <<123198, 123199, 1,
    0>>, <<123210, 123213, 1, 0>>, <<123216, 123535, 1, 0>>, <<123567, 123583, 1, 0>>,
    <<123642, 123646, 1, 0>>, <<123648, 124895, 1, 0>>, <<124903, 124903, 1, 0>>, <<124908,
    124908, 1, 0>>, <<124911, 124911, 1, 0>>, <<124927, 124927, 1, 0>>, <<125125, 125126, 1,
    0>>, <<125143, 125183, 1, 0>>, <<125260, 125263, 1, 0>>, <<125274, 125277, 1, 0>>,
    <<125280, 126064, 1, 0>>, <<126133, 126208, 1, 0>>, <<126270, 126463, 1, 0>>, <<126468,
    126468, 1, 0>>, <<126496, 126496, 1, 0>>, <<126499, 126499, 1, 0>>, <<126501, 126502, 1,
    0>>, <<126504, 126504, 1, 0>>, <<126515, 126515, 1, 0>>, <<126520, 126520, 1, 0>>,
    <<126522, 126522, 1, 0>>, <<126524, 126529, 1, 0>>, <<126531, 126534, 1, 0>>, <<126536,
    126536, 1, 0>>, <<126538, 126538, 1, 0>>, <<126540, 126540, 1, 0>>, <<126544, 126544, 1,
    0>>, <<126547, 126547, 1, 0>>, <<126549, 126550, 1, 0>>, <<126552, 126552, 1, 0>>,
    <<126554, 126554, 1, 0>>, <<126556, 126556, 1, 0>>, <<126558, 126558, 1, 0>>, <<126560,
    126560, 1, 0>>, <<126563, 126563, 1, 0>>, <<126565, 126566, 1, 0>>, <<126571, 126571, 1,
    0>>, <<126579, 126579, 1, 0>>, <<126584, 126584, 1, 0>>, <<126589, 126589, 1, 0>>,
    <<126591, 126591, 1, 0>>, <<126602, 126602, 1, 0>>, <<126620, 126624, 1, 0>>, <<126628,
    126628, 1, 0>>, <<126634, 126634, 1, 0>>, <<126652, 126703, 1, 0>>, <<126706, 126975, 1,
    0>>, <<127020, 127023, 1, 0>>, <<127124, 127135, 1, 0>>, <<127151, 127152, 1, 0>>,
    <<127168, 127168, 1, 0>>, <<127184, 127184, 1, 0>>, <<127222, 127231, 1, 0>>, <<127406,
    127461, 1, 0>>, <<127491, 127503, 1, 0>>, <<127548, 127551, 1, 0>>, <<127561, 127567, 1,
    0>>, <<127570, 127583, 1, 0>>, <<127590, 127743, 1, 0>>, <<128728, 128732, 1, 0>>,
    <<128749, 128751, 1, 0>>, <<128765, 128767, 1, 0>>, <<128884, 128895, 1, 0>>, <<128985,
    128991, 1, 0>>, <<129004, 129007, 1, 0>>, <<129009, 129023, 1, 0>>, <<129036, 129039, 1,
    0>>, <<129096, 129103, 1, 0>>, <<129114, 129119, 1, 0>>, <<129160, 129167, 1, 0>>,
    <<129198, 129199, 1, 0>>, <<129202, 129279, 1, 0>>, <<129620, 129631, 1, 0>>, <<129646,
    129647, 1, 0>>, <<129653, 129655, 1, 0>>, <<129661, 129663, 1, 0>>, <<129671, 129679, 1,
    0>>, <<129709, 129711, 1, 0>>, <<129723, 129727, 1, 0>>, <<129734, 129743, 1, 0>>,
    <<129754, 129759, 1, 0>>, <<129768, 129775, 1, 0>>, <<129783, 129791, 1, 0>>, <<129939,
    129939, 1, 0>>, <<129995, 130031, 1, 0>>, <<130042, 131071, 1, 0>>, <<173792, 173823, 1,
    0>>, <<177977, 177983, 1, 0>>, <<178206, 178207, 1, 0>>, <<183970, 183983, 1, 0>>,
    <<191457, 194559, 1, 0>>, <<195102, 196607, 1, 0>>, <<201547, 917759, 1, 0>>, <<918000,
    1114111, 1, 0>>}

\* is the character one that repr writes as it is
Printable(c) ==
    /\ c \notin ControlSet
    /\ c /= "U+007F"
    /\ Len(c) = 1 \/ c = GRAVE \/ ~InRanges(CodePoint(c), NonPrintableRanges)

\* the digits of n in lower-case hexadecimal, at least width of them
HexLower(n, width) ==
    LET h == StrLower(Chars(HexString(n)))
    IN  Zeros(IF Len(h) < width THEN width - Len(h) ELSE 0) \o h

\* how repr writes one character inside the quotation marks quote
ReprChar(c, quote) ==
    IF c = quote \/ c = "\\" THEN <<"\\", c>>
    ELSE IF c = "\t" THEN Chars("\\t")
    ELSE IF c = "\n" THEN Chars("\\n")
    ELSE IF c = "\r" THEN Chars("\\r")
    ELSE IF Printable(c) THEN <<c>>
    ELSE IF CodePoint(c) <= 255 THEN Chars("\\x") \o HexLower(CodePoint(c), 2)
    ELSE IF CodePoint(c) <= 65535 THEN Chars("\\u") \o HexLower(CodePoint(c), 4)
    ELSE Chars("\\U") \o HexLower(CodePoint(c), 8)

\* repr of a str: in apostrophes, in quotation marks when it holds an
\* apostrophe and no quotation mark
ReprStr(text) ==
    LET quote == IF (\E k \in 1..Len(text) : text[k] = "'")
                    /\ ~(\E k \in 1..Len(text) : text[k] = "\"")
                 THEN "\"" ELSE "'"
    IN  <<quote>> \o Flatten([k \in 1..Len(text) |-> ReprChar(text[k], quote)]) \o <<quote>>

\* the texts of a sequence joined with ", "
RECURSIVE JoinComma(_)
JoinComma(texts) ==
    IF texts = <<>> THEN <<>>
    ELSE IF Len(texts) = 1 THEN texts[1]
    ELSE texts[1] \o Chars(", ") \o JoinComma(Tail(texts))

\* repr(value)
RECURSIVE PyRepr(_)
PyRepr(value) ==
    CASE value.t = "str" -> ReprStr(value.v)
      [] value.t \in {"int", "float"} -> value.v
      [] value.t = "bool" -> IF value.v THEN Chars("True") ELSE Chars("False")
      [] value.t = "NoneType" -> Chars("None")
      [] value.t = "list" ->
            <<"[">> \o JoinComma([k \in 1..Len(value.v) |-> PyRepr(value.v[k])]) \o <<"]">>
      [] value.t = "dict" ->
            <<"{">> \o JoinComma([k \in 1..Len(value.v) |->
                                     ReprStr(value.v[k][1]) \o Chars(": ")
                                     \o PyRepr(value.v[k][2])])
            \o <<"}">>

\* f"{pattern}": the text itself for a str, repr for every other value
Format(value) == IF value.t = "str" THEN value.v ELSE PyRepr(value)

\* for pattern in patterns, line 29: what the loop draws from the value, each
\* pattern with whether it is a str and the text f"{pattern}" gives; a list
\* gives its items, a dict its keys, a str its characters, and every other
\* value raises TypeError
Patterns(value) ==
    CASE value.t = "list" ->
            [err |-> "none",
             items |-> [k \in 1..Len(value.v) |->
                           [str |-> value.v[k].t = "str", text |-> Format(value.v[k])]]]
      [] value.t = "dict" ->
            [err |-> "none",
             items |-> [k \in 1..Len(value.v) |-> [str |-> TRUE, text |-> value.v[k][1]]]]
      [] value.t = "str" ->
            [err |-> "none",
             items |-> [k \in 1..Len(value.v) |-> [str |-> TRUE, text |-> <<value.v[k]>>]]]
      [] OTHER -> [err |-> "TypeError", items |-> <<>>]

\* the patterns of a figure: json.loads and the loop header of line 29
PatternsOf(loaded) ==
    IF loaded.err /= "none" THEN [err |-> loaded.err, items |-> <<>>]
    ELSE Patterns(loaded.v)

\* the texts of the patterns of search_patterns
PatternTexts(search_patterns) ==
    LET found == PatternsOf(json_loads(search_patterns))
    IN  [k \in 1..Len(found.items) |-> found.items[k].text]

\* the bytes of the UTF-8 encoding of a text
Utf8Len(text) ==
    Len(text)
    + Cardinality({k \in 1..Len(text) : Len(text[k]) > 1 /\ CodePoint(text[k]) >= 128})
    + Cardinality({k \in 1..Len(text) : Len(text[k]) > 1 /\ CodePoint(text[k]) >= 2048})
    + Cardinality({k \in 1..Len(text) : Len(text[k]) > 1 /\ CodePoint(text[k]) >= 65536})

NUL == "U+0000"

\* a text as SQLite's LIKE reads it: up to the first NUL
UpToNul(text) ==
    IF \E k \in 1..Len(text) : text[k] = NUL
    THEN SubSeq(text, 1, (CHOOSE k \in 1..Len(text) :
                              text[k] = NUL /\ \A j \in 1..(k - 1) : text[j] /= NUL) - 1)
    ELSE text

\* does text from offset i on match like_pattern from offset j on: % stands
\* for any run of characters, _ for any one, and the letters A-Z and a-z
\* match without case
RECURSIVE LikeFrom(_, _, _, _)
LikeFrom(text, i, like_pattern, j) ==
    IF j = Len(like_pattern) THEN i = Len(text)
    ELSE IF like_pattern[j + 1] = "%"
         THEN j + 1 = Len(like_pattern)
              \/ \E k \in i..Len(text) : LikeFrom(text, k, like_pattern, j + 1)
    ELSE IF i = Len(text) THEN FALSE
    ELSE IF like_pattern[j + 1] = "_"
            \/ AsciiLower(like_pattern[j + 1]) = AsciiLower(text[i + 1])
         THEN LikeFrom(text, i + 1, like_pattern, j + 1)
    ELSE FALSE

\* WHERE c.text LIKE ? with like_pattern = f"%{pattern}%", lines 31 and 45
Like(text, pattern) ==
    LikeFrom(UpToNul(text), 0, UpToNul(<<"%">> \o pattern \o <<"%">>), 0)

\* the exception cursor.execute raises for the pattern, or "none": a lone
\* surrogate cannot be bound, and LIKE refuses a pattern of more than
\* 50000 bytes on the first row it is asked about
ExecuteError(conn, pattern) ==
    IF \E k \in 1..Len(pattern) :
           /\ Len(pattern[k]) > 1
           /\ HighSurrogate(CodePoint(pattern[k])) \/ LowSurrogate(CodePoint(pattern[k]))
    THEN "UnicodeEncodeError"
    ELSE IF conn /= <<>> /\ Utf8Len(pattern) + 2 > 50000 THEN "OperationalError"
    ELSE "none"

\* the orders in which the rows of a table can be listed
Orderings(rows) ==
    {[i \in 1..Len(rows) |-> rows[p[i]]] : p \in Permutations(1..Len(rows))}

\* ORDER BY s.year DESC of the chunks query, line 46: the rows in descending
\* year order; the order of the rows of one year is not given by the query
\* and is the store's, so that every such listing is a result
OrderByYearDesc(rows) ==
    {o \in Orderings(rows) : \A i \in 1..(Len(o) - 1) : o[i].year >= o[i + 1].year}

\* cursor.fetchall() of the chunks query for one pattern; conn holds the
\* rows of the join as the store yields them under ORDER BY s.year DESC
ChunksLike(conn, pattern) ==
    LET Hit(row) == Like(row.text, pattern)
    IN  SelectSeq(conn, Hit)

\* context_text: up to 500 characters either side of the first mention
ContextText(text, pattern, pos) ==
    Slice(text, Max(0, pos - 500), Min(Len(text), pos + Len(pattern) + 500))

\* lines 114-116: the extracted quote in the casing of context_text, read at
\* the first place the lower-cased quote occurs
OriginalCasing(context_text, extracted_quote, quote_start) ==
    IF quote_start /= -1
    THEN Slice(context_text, quote_start, quote_start + Len(extracted_quote))
    ELSE extracted_quote

\* base confidence for a mention
BASE_CONFIDENCE == 30

\* is_direct_quote, confidence and extracted_quote before the cascade
NoAttribution ==
    [is_direct_quote |-> FALSE, confidence |-> BASE_CONFIDENCE, extracted_quote |-> None]

RECURSIVE AttributionFrom(_, _, _, _)
RECURSIVE AttributionStep(_, _, _, _, _)

\* faulty cascade: the loop goes on after a match and the highest score wins
AttributionStep_Highest(context_text, pattern_lower, k, sofar, match) ==
    IF match.end < 0 THEN AttributionFrom(context_text, pattern_lower, k + 1, sofar)
    ELSE AttributionFrom(context_text, pattern_lower, k + 1,
             IF sofar.is_direct_quote /\ sofar.confidence >= attribution_patterns[k].score
             THEN sofar
             ELSE [is_direct_quote |-> TRUE,
                   confidence |-> attribution_patterns[k].score,
                   extracted_quote |->
                       MatchGroup(context_text, match, attribution_patterns[k].quote_group)])

\* the body of the loop over attribution_patterns for pattern k, whose
\* search gave match; sofar: is_direct_quote, confidence, extracted_quote
AttributionStep(context_text, pattern_lower, k, sofar, match) ==
    IF match.end < 0 THEN AttributionFrom(context_text, pattern_lower, k + 1, sofar)
    ELSE IF attribution_patterns[k].quote_group > GroupCount(attribution_patterns[k].regex)
         THEN \* IndexError: continue
              AttributionFrom(context_text, pattern_lower, k + 1, sofar)
    ELSE LET extracted_quote ==
                 MatchGroup(StrLower(context_text), match, attribution_patterns[k].quote_group)
         IN  IF Truthy(extracted_quote) /\ Len(extracted_quote) >= 10
             THEN [is_direct_quote |-> TRUE,
                   confidence |-> attribution_patterns[k].score,
                   extracted_quote |->
                       OriginalCasing(context_text, extracted_quote,
                                      Find(StrLower(context_text), extracted_quote))]
             ELSE AttributionFrom(context_text, pattern_lower, k + 1,
                                  [sofar EXCEPT !.extracted_quote = extracted_quote])

\* the loop over attribution_patterns from pattern k on, lines 107-121
AttributionFrom(context_text, pattern_lower, k, sofar) ==
    IF k > Len(attribution_patterns) THEN sofar
    ELSE AttributionStep(context_text, pattern_lower, k, sofar,
                         re_search(attribution_patterns[k].regex, StrLower(context_text),
                                   TRUE, pattern_lower))

\* the loop over weak_indicators from indicator k on, lines 138-140
RECURSIVE WeakFrom(_, _, _, _)
WeakFrom(context_lower, pattern_lower, k, confidence) ==
    IF k > Len(weak_indicators) THEN confidence
    ELSE WeakFrom(context_lower, pattern_lower, k + 1,
                  IF re_search(weak_indicators[k].regex, context_lower, TRUE,
                               pattern_lower).end >= 0
                  THEN Max(confidence, weak_indicators[k].score)
                  ELSE confidence)

\* the score of each weak indicator added to the confidence, instead of the
\* larger of the two kept
WithWeakIndicators_Added(context_text, pattern_lower, found) ==
    IF found.is_direct_quote THEN found
    ELSE [found EXCEPT !.confidence =
              found.confidence + WeakFrom(StrLower(context_text), pattern_lower, 1, 0)]

\* lines 124-140: the weak indicators count when no attributed quote was found
WithWeakIndicators(context_text, pattern_lower, found) ==
    IF found.is_direct_quote THEN found
    ELSE [found EXCEPT !.confidence =
              WeakFrom(StrLower(context_text), pattern_lower, 1, found.confidence)]

\* lines 143-149: the extracted quote, else 150 characters either side of the name
QuoteText(context_text, pattern, found, pattern_pos_in_context) ==
    IF Truthy(found.extracted_quote) THEN found.extracted_quote
    ELSE Slice(context_text, Max(0, pattern_pos_in_context - 150),
               Min(Len(context_text), pattern_pos_in_context + Len(pattern) + 150))

\* lines 151-161: the entry appended for one row
Quotation(figure_id, row, pattern, context_text, found) ==
    [figure_id |-> figure_id,
     speech_id |-> row.speech_id,
     chunk_id |-> row.chunk_id,
     quote_text |-> Slice(QuoteText(context_text, pattern, found,
                                    Find(StrLower(context_text), StrLower(pattern))),
                          0, 1000),
     context_text |-> Slice(context_text, 0, 1500),
     year |-> row.year,
     country_name |-> row.country_name,
     is_direct_quote |-> found.is_direct_quote,
     confidence_score |-> found.confidence]

\* the body of the loop over the rows, for text = context_text
QuotationIn(figure_id, row, pattern, context_text) ==
    Quotation(figure_id, row, pattern, context_text,
              WithWeakIndicators(context_text, StrLower(pattern),
                  AttributionFrom(context_text, StrLower(pattern), 1, NoAttribution)))

\* the loop over the rows of one pattern from row k on; a row in which the
\* lower-cased pattern is not found is skipped
RECURSIVE QuotationsOfRows(_, _, _, _)
QuotationsOfRows(figure_id, rows, pattern, k) ==
    IF k > Len(rows) THEN <<>>
    ELSE (IF Find(StrLower(rows[k].text), StrLower(pattern)) = -1 THEN <<>>
          ELSE <<QuotationIn(figure_id, rows[k], pattern,
                             ContextText(rows[k].text, pattern,
                                         Find(StrLower(rows[k].text), StrLower(pattern))))>>)
         \o QuotationsOfRows(figure_id, rows, pattern, k + 1)

\* what extract_quotations_for_figure gives: the quotations it returns, or
\* the exception that leaves it
Extracted(quotations) == [err |-> "none", quotations |-> quotations]
Raised(exception) == [err |-> exception, quotations |-> <<>>]

RECURSIVE ExtractFrom(_, _, _, _, _)
RECURSIVE ExtractRows(_, _, _, _, _, _)

\* the loop over the patterns from pattern p on, lines 29-161, with the
\* quotations appended so far
ExtractFrom(conn, figure_id, items, p, quotations) ==
    IF p > Len(items) THEN Extracted(quotations)
    ELSE IF ExecuteError(conn, items[p].text) /= "none"
         THEN Raised(ExecuteError(conn, items[p].text))
    ELSE ExtractRows(conn, figure_id, items, p, quotations, ChunksLike(conn, items[p].text))

\* the loop over the rows fetched for pattern p; a pattern that is no str
\* has no lower(), line 57
ExtractRows(conn, figure_id, items, p, quotations, rows) ==
    IF ~items[p].str /\ rows /= <<>> THEN Raised("AttributeError")
    ELSE ExtractFrom(conn, figure_id, items, p + 1,
                     quotations \o QuotationsOfRows(figure_id, rows, items[p].text, 1))

\* extract_quotations_for_figure with what line 25 and the loop header of
\* line 29 gave
ExtractWith(conn, figure_id, found) ==
    IF found.err /= "none" THEN Raised(found.err)
    ELSE ExtractFrom(conn, figure_id, found.items, 1, <<>>)

extract_quotations_for_figure(conn, figure_id, name, search_patterns) ==
    ExtractWith(conn, figure_id, PatternsOf(json_loads(search_patterns)))

\* key = (q['speech_id'], q['quote_text'][:100])
DedupKey(q) == <<q.speech_id, Slice(q.quote_text, 0, 100)>>

\* faulty loop: of the entries with one key the last is kept
RECURSIVE UniqueFrom_Last(_, _, _)
UniqueFrom_Last(quotations, k, seen) ==
    IF k > Len(quotations) THEN <<>>
    ELSE IF \E j \in (k + 1)..Len(quotations) :
                DedupKey(quotations[j]) = DedupKey(quotations[k])
         THEN UniqueFrom_Last(quotations, k + 1, seen)
         ELSE <<quotations[k]>> \o UniqueFrom_Last(quotations, k + 1, seen)

\* the loop of deduplicate_quotations from entry k on, with the keys seen
RECURSIVE UniqueFrom(_, _, _)
UniqueFrom(quotations, k, seen) ==
    IF k > Len(quotations) THEN <<>>
    ELSE IF DedupKey(quotations[k]) \in seen THEN UniqueFrom(quotations, k + 1, seen)
    ELSE <<quotations[k]>> \o UniqueFrom(quotations, k + 1, seen \cup {DedupKey(quotations[k])})

deduplicate_quotations(quotations) == UniqueFrom(quotations, 1, {})

(***************************************************************************)
(* The corpus the analysis runs on                                         *)
(***************************************************************************)
MaxSpeeches == 3
MaxRuns == 2

CHARTER_A == "To save succeeding generations from the scourge of war"
CHARTER_B == "to save the coming generations from the scourge of war"
CHARTER_C == "to save the coming generations from the horrors of war"
DREAM_TYPO == "I have a dram that one day"
DREAM == "I have a dream that one day"
WEAPON == "Education is the most powerful weapon."
WEAPON_LONG ==
    "Education is the most powerful weapon which you can use to change the world."

\* the speeches a corpus is drawn from: year, country and text
SpeechPool == {
    [year |-> 1990, country_name |-> "Brazil",
     text |-> Chars("He said, \"" \o CHARTER_A \o "\"")],
    [year |-> 2000, country_name |-> "India",
     text |-> Chars("He once said, \"" \o CHARTER_A \o "\"")],
    [year |-> 2000, country_name |-> "Brazil",
     text |-> Chars("She wrote: \"" \o CHARTER_B \o "\"")],
    [year |-> 1990, country_name |-> "Brazil",
     text |-> Chars("She wrote: \"" \o CHARTER_B \o "\"")],
    [year |-> 1990, country_name |-> "India",
     text |-> Chars("It was declared \"" \o CHARTER_C \o "\"")],
    [year |-> 1990, country_name |-> "Brazil",
     text |-> Chars("He said, \"" \o DREAM_TYPO \o "\"")],
    [year |-> 2000, country_name |-> "India",
     text |-> Chars("John Smith said, \"" \o DREAM \o "\"")],
    [year |-> 2000, country_name |-> "Brazil",
     text |-> Chars("He said, \"" \o CHARTER_A \o "\" She wrote: \"" \o DREAM \o "\"")],
    [year |-> 2000, country_name |-> "Brazil",
     text |-> Chars("Nelson Mandela said, \"" \o WEAPON \o "\"")],
    [year |-> 1990, country_name |-> "India",
     text |-> Chars("\"" \o WEAPON_LONG \o "\"")],
    [year |-> 2000, country_name |-> "India",
     text |-> <<>>]
}

Countries == {r.country_name : r \in SpeechPool}

(***************************************************************************)
(* list(set(...)) of line 257.  A set of strings is a hash table: a key    *)
(* goes to the slot its hash gives or, when that slot is taken, to the     *)
(* next free slot of its probe sequence, and the set lists its keys in     *)
(* slot order.  hash() of a string changes from one process to the next,   *)
(* so the order of a listing is the process's, and two sets of one process *)
(* that were filled in different orders can list the same keys in          *)
(* different orders.  A hash is written as its base-32 digits, lowest      *)
(* first.                                                                  *)
(***************************************************************************)
\* the largest base-32 digit of the hashes a process is given
MaxHashDigit == 2

\* the hashes a string can have
HashPool == {<<a, b>> : a, b \in 0..MaxHashDigit}

\* the hashes one process gives the countries
StringHashes == [Countries -> HashPool]

\* perturb & mask
RECURSIVE LowBits(_, _)
LowBits(perturb, mask) ==
    IF perturb = <<>> THEN 0
    ELSE IF mask < 32 THEN perturb[1] % (mask + 1)
    ELSE perturb[1] + 32 * LowBits(Tail(perturb), mask \div 32)

\* perturb >>= PERTURB_SHIFT
Shifted(perturb) == IF perturb = <<>> THEN <<>> ELSE Tail(perturb)

\* the slot a new key is put in: slot i or one of the 9 slots after it, which
\* are looked at when the table has them, then the same from
\* i = (i * 5 + 1 + perturb) & mask
RECURSIVE FreeSlot(_, _, _, _)
FreeSlot(table, mask, i, perturb) ==
    LET probes == IF i + 9 <= mask THEN 9 ELSE 0
        free == {j \in i..(i + probes) : table[j] = {}}
    IN  IF free /= {} THEN CHOOSE j \in free : \A k \in free : j <= k
        ELSE FreeSlot(table, mask,
                      (i * 5 + 1 + LowBits(Shifted(perturb), mask)) % (mask + 1),
                      Shifted(perturb))

\* a table of so many slots, each the set of the keys it holds: none or one
EmptyTable(size) == [table |-> [j \in 0..(size - 1) |-> {}], mask |-> size - 1, fill |-> 0]

\* the keys of a table in slot order
RECURSIVE KeysFrom(_, _)
KeysFrom(so, j) ==
    IF j > so.mask THEN <<>>
    ELSE (IF so.table[j] = {} THEN <<>> ELSE <<CHOOSE key \in so.table[j] : TRUE>>)
         \o KeysFrom(so, j + 1)

\* a key put in a table it is not in
Inserted(so, key, hash) ==
    [so EXCEPT !.table[FreeSlot(so.table, so.mask, LowBits(hash[key], so.mask), hash[key])] = {key},
               !.fill = so.fill + 1]

RECURSIVE InsertAll(_, _, _)
InsertAll(so, keys, hash) ==
    IF keys = <<>> THEN so
    ELSE InsertAll(Inserted(so, keys[1], hash), Tail(keys), hash)

\* the size of the table that replaces a full one
RECURSIVE NewSize(_, _)
NewSize(newsize, minused) ==
    IF newsize <= minused THEN NewSize(newsize * 2, minused) ELSE newsize

\* set_table_resize: the keys go to a larger table, 8 slots doubled until
\* they are more than four times the keys, in slot order
Resized(so, hash) ==
    InsertAll(EmptyTable(NewSize(8,
                                 IF so.fill > 50000 THEN so.fill * 2 ELSE so.fill * 4)),
              KeysFrom(so, 0), hash)

\* set.add(key): a key the set has changes nothing; a table that is three
\* fifths full after the key went in is replaced
SetAdd(so, key, hash) ==
    IF \E j \in 0..so.mask : key \in so.table[j] THEN so
    ELSE LET added == Inserted(so, key, hash)
         IN  IF added.fill * 5 < added.mask * 3 THEN added ELSE Resized(added, hash)

RECURSIVE SetOf(_, _, _)
SetOf(so, keys, hash) ==
    IF keys = <<>> THEN so
    ELSE SetOf(SetAdd(so, keys[1], hash), Tail(keys), hash)

\* list(set(keys)) in a process with these hashes; a set starts with 8 slots
ListOfSet(keys, hash) == KeysFrom(SetOf(EmptyTable(8), keys, hash), 0)

\* the keys of a sequence, each where it first occurs
RECURSIVE FirstOccurrences(_)
FirstOccurrences(keys) ==
    IF keys = <<>> THEN <<>>
    ELSE LET front == FirstOccurrences(SubSeq(keys, 1, Len(keys) - 1))
             last == keys[Len(keys)]
         IN  IF \E k \in 1..Len(front) : front[k] = last THEN front ELSE Append(front, last)

\* the orders in which the countries can go into a set
Insertions ==
    UNION {{o \in [1..n -> Countries] : \A i, j \in 1..n : i /= j => o[i] /= o[j]} :
              n \in 0..Cardinality(Countries)}

\* how the sets of one process list the countries: for every order in which
\* countries go in, the order in which they are listed
SetOrders == {[keys \in Insertions |-> ListOfSet(keys, hash)] : hash \in StringHashes}

\* the tables speeches can hold: up to MaxSpeeches rows, ids in table order
RECURSIVE TablesUpTo(_)
TablesUpTo(n) ==
    IF n = 0 THEN {<<>>}
    ELSE LET shorter == TablesUpTo(n - 1)
         IN  shorter \cup
             {Append(t, [id |-> Len(t) + 1, year |-> r.year,
                         country_name |-> r.country_name,
                         speaker |-> "Delegate", text |-> r.text]) :
                 t \in {u \in shorter : Len(u) = n - 1}, r \in SpeechPool}

(***************************************************************************)
(* Results that depend on the text alone, computed once per text           *)
(***************************************************************************)
PoolTexts == {r.text : r \in SpeechPool}

ScanMemo == {<<t, ScanText(t)>> : t \in PoolTexts}

\* the normalized texts the scans of the pool find
PoolNormalized ==
    UNION {{found[k].normalized : k \in 1..Len(found)} : found \in {e[2] : e \in ScanMemo}}

Pairs(S) == S \X S

SimilarMemo == {<<p[1], p[2], are_similar(p[1], p[2])>> : p \in Pairs(PoolNormalized)}

SourceMemo == {<<q, get_quote_source(q)>> : q \in PoolNormalized}

\* the scan of a text, are_similar and get_quote_source as the run calls them:
\* read from the tables above for the texts of the pool, computed otherwise
ScanOf(text) ==
    IF text \in PoolTexts THEN (CHOOSE e \in ScanMemo : e[1] = text)[2] ELSE ScanText(text)
Similar(quote1, quote2) ==
    IF quote1 \in PoolNormalized /\ quote2 \in PoolNormalized
    THEN <<quote1, quote2, TRUE>> \in SimilarMemo
    ELSE are_similar(quote1, quote2)
QuoteSource(quote_norm) ==
    IF quote_norm \in PoolNormalized
    THEN (CHOOSE e \in SourceMemo : e[1] = quote_norm)[2]
    ELSE get_quote_source(quote_norm)

(***************************************************************************)
(* analyze_quotations.py: grouping, ranking, report                        *)
(***************************************************************************)
\* the listings of the rows whose places in the table are in the set places
RECURSIVE Listings(_, _)
Listings(rows, places) ==
    IF places = {} THEN {<<>>}
    ELSE UNION {{<<rows[i]>> \o o : o \in Listings(rows, places \ {i})} : i \in places}

\* ORDER BY year of the speeches query, line 162: the rows in year order;
\* the order of the rows of one year is not given by the query and is the
\* store's, so that every listing in year order is a result: the rows of the
\* first year in any order, then the rows of the later years
RECURSIVE SortByYear(_)
SortByYear(rows) ==
    IF Len(rows) = 0 THEN {<<>>}
    ELSE LET InFirstYear(row) == \A j \in 1..Len(rows) : row.year <= rows[j].year
             Later(row) == ~InFirstYear(row)
         IN  {first \o later :
                 first \in Listings(rows, {i \in 1..Len(rows) : InFirstYear(rows[i])}),
                 later \in SortByYear(SelectSeq(rows, Later))}

\* the entry all_quotes gets for one match found in the text of a speech
QuoteEntry(row, found) ==
    [original |-> found.original,
     normalized |-> found.normalized,
     year |-> row.year,
     country |-> row.country_name,
     speech_speaker |-> row.speaker,
     quoted_person |-> found.quoted_person,
     speech_id |-> row.id]

\* faulty inner loop: a candidate joins although it is in a group already
RECURSIVE Joiners_Reused(_, _, _, _)
Joiners_Reused(quotes, taken, i, j) ==
    IF j > Len(quotes) THEN <<>>
    ELSE (IF Similar(quotes[i].normalized, quotes[j].normalized) THEN <<j>> ELSE <<>>)
         \o Joiners_Reused(quotes, taken, i, j + 1)

\* the inner loop of the grouping pass for seed i: the indices j > i, not yet
\* used, whose normalized text is similar to the seed's, in list order
RECURSIVE Joiners(_, _, _, _)
Joiners(quotes, taken, i, j) ==
    IF j > Len(quotes) THEN <<>>
    ELSE (IF j \notin taken /\ Similar(quotes[i].normalized, quotes[j].normalized)
          THEN <<j>> ELSE <<>>)
         \o Joiners(quotes, taken, i, j + 1)

\* faulty inner loop: a candidate joins when it is similar to the member that
\* joined last, instead of the seed
RECURSIVE ChainedJoiners(_, _, _, _)
ChainedJoiners(quotes, taken, last, j) ==
    IF j > Len(quotes) THEN <<>>
    ELSE IF j \notin taken /\ Similar(quotes[last].normalized, quotes[j].normalized)
         THEN <<j>> \o ChainedJoiners(quotes, taken, j, j + 1)
         ELSE ChainedJoiners(quotes, taken, last, j + 1)

\* faulty grouping: the cluster is a chain of neighbours
ClusterOf_Chained(quotes, taken, i) == <<i>> \o ChainedJoiners(quotes, taken, i, i + 1)

\* faulty grouping: the inner loop starts one candidate late
ClusterOf_Skipping(quotes, taken, i) == <<i>> \o Joiners(quotes, taken, i, i + 2)

\* faulty grouping: the inner loop ends at the first candidate that joins
ClusterOf_FirstJoiner(quotes, taken, i) ==
    <<i>> \o SubSeq(Joiners(quotes, taken, i, i + 1), 1,
                    Min(1, Len(Joiners(quotes, taken, i, i + 1))))

\* group = [q1] + every q2 that joined
ClusterOf(quotes, taken, i) == <<i>> \o Joiners(quotes, taken, i, i + 1)

\* faulty filter: every group is kept
KeepGroup_Always(groups, group) == Append(groups, group)

\* if len(group) >= 2: quote_groups.append(group)
KeepGroup(groups, group) == IF Len(group) >= 2 THEN Append(groups, group) ELSE groups

\* faulty ranking: the list is left in the order of the pass
SortByLenDesc_Unsorted(groups) == groups

\* faulty ranking: longest first, groups of one length in reverse order
RECURSIVE SortByLenDesc_Reversed(_)
SortByLenDesc_Reversed(groups) ==
    IF Len(groups) = 0 THEN <<>>
    ELSE LET k == CHOOSE i \in 1..Len(groups) :
                     /\ \A j \in 1..Len(groups) : Len(groups[i]) >= Len(groups[j])
                     /\ \A j \in (i + 1)..Len(groups) : Len(groups[j]) < Len(groups[i])
         IN  <<groups[k]>>
             \o SortByLenDesc_Reversed(SubSeq(groups, 1, k - 1)
                                       \o SubSeq(groups, k + 1, Len(groups)))

\* quote_groups.sort(key=len, reverse=True): longest first, groups of one
\* length in their previous order (the sort is stable)
RECURSIVE SortByLenDesc(_)
SortByLenDesc(groups) ==
    IF Len(groups) = 0 THEN <<>>
    ELSE LET k == CHOOSE i \in 1..Len(groups) :
                     /\ \A j \in 1..Len(groups) : Len(groups[i]) >= Len(groups[j])
                     /\ \A j \in 1..(i - 1) : Len(groups[j]) < Len(groups[i])
         IN  <<groups[k]>>
             \o SortByLenDesc(SubSeq(groups, 1, k - 1) \o SubSeq(groups, k + 1, Len(groups)))

\* Counter(values).most_common(1)[0][0]: the most frequent value, of equally
\* frequent ones the one met first
MostCommon(values) ==
    LET Count(v) == Cardinality({k \in 1..Len(values) : values[k] = v})
        k == CHOOSE i \in 1..Len(values) :
                /\ \A j \in 1..Len(values) : Count(values[j]) <= Count(values[i])
                /\ \A j \in 1..(i - 1) : Count(values[j]) < Count(values[i])
    IN  values[k]

\* [q['quoted_person'] for q in group if q['quoted_person']]
RECURSIVE SpeakersOf(_)
SpeakersOf(group) ==
    IF Len(group) = 0 THEN <<>>
    ELSE (IF Truthy(group[1].quoted_person) THEN <<group[1].quoted_person>> ELSE <<>>)
         \o SpeakersOf(Tail(group))

\* list(set(q['country'] for q in group)): the countries of the group as the
\* set lists them (order: how the sets of this process list the countries)
CountryList(group, order) ==
    order[FirstOccurrences([k \in 1..Len(group) |-> group[k].country])]

\* the section generate_report writes at rank i, from the values its loop
\* body computes: count, best_original, years, countries, speakers and
\* found = <<known_source, explanation>>
ReportSection(i, count, best_original, years, countries, speakers, found) ==
    LET lo == CHOOSE y \in years : \A z \in years : y <= z
        hi == CHOOSE y \in years : \A z \in years : y >= z
    IN  [rank |-> i,
         count |-> count,
         quote |-> best_original,
         source |-> IF Truthy(found[1]) THEN found[1] ELSE None,
         explanation |-> IF Truthy(found[1]) /\ Truthy(found[2]) THEN found[2] ELSE None,
         attributed_to |-> IF ~Truthy(found[1]) /\ Len(speakers) > 0
                           THEN MostCommon(speakers) ELSE None,
         year_range |-> IF Cardinality(years) > 1 THEN <<lo, hi>> ELSE <<lo>>,
         n_countries |-> Len(countries),
         quoted_by |-> IF Len(countries) <= 5
                       THEN SubSeq(countries, 1, Min(5, Len(countries))) ELSE None]

\* the originals of a group, in group order
Originals(group) == [k \in 1..Len(group) |-> group[k].original]

\* one round of the loop of generate_report: the group at rank i; the known
\* source is looked up under the normalized text of the group's first member
ReportEntry(group, i, order) ==
    ReportSection(i, Len(group), MostCommon(Originals(group)),
                  {group[k].year : k \in 1..Len(group)},
                  CountryList(group, order), SpeakersOf(group),
                  QuoteSource(group[1].normalized))

\* how many groups the report lists
REPORT_TOP == 50

\* how many groups the console listing shows
CONSOLE_TOP == 10

RECURSIVE SumLen(_)
SumLen(groups) == IF Len(groups) = 0 THEN 0 ELSE Len(groups[1]) + SumLen(Tail(groups))

generate_report(groups, order) ==
    [found |-> Len(groups),
     entries |-> [i \in 1..Min(REPORT_TOP, Len(groups)) |-> ReportEntry(groups[i], i, order)],
     total_occurrences |-> SumLen(groups),
     most_repeated |-> IF Len(groups) > 0 THEN Len(groups[1]) ELSE 0]

\* the line the console listing prints at rank i, from the values its loop
\* body computes
ConsoleLine(i, count, best_original, speakers, known_source) ==
    [rank |-> i,
     count |-> count,
     attribution |-> IF Truthy(known_source) THEN known_source
                     ELSE IF Len(speakers) > 0 THEN MostCommon(speakers)
                     ELSE Chars("Unknown"),
     display |-> SubSeq(best_original, 1, Min(80, Len(best_original)))
                 \o (IF Len(best_original) > 80 THEN Chars("...") ELSE <<>>)]

ConsoleEntry(group, i) ==
    ConsoleLine(i, Len(group), MostCommon(Originals(group)), SpeakersOf(group),
                QuoteSource(group[1].normalized)[1])

\* faulty listing: the last groups of the list instead of the first
top10_Last(groups) ==
    [i \in 1..Min(CONSOLE_TOP, Len(groups)) |->
        ConsoleEntry(groups[Len(groups) - Min(CONSOLE_TOP, Len(groups)) + i], i)]

top10(groups) ==
    [i \in 1..Min(CONSOLE_TOP, Len(groups)) |-> ConsoleEntry(groups[i], i)]

(***************************************************************************)
(* Normalizer harness: the function applied to bounded inputs              *)
(***************************************************************************)
MaxNormLen == 4

NormAlphabet == {"a", "B", " ", ".", ",", "'", HELLIP}

RECURSIVE StringsUpTo(_, _)
StringsUpTo(cs, n) ==
    IF n = 0 THEN {<<>>}
    ELSE LET shorter == StringsUpTo(cs, n - 1)
         IN  shorter \cup {Append(s, c) : s \in shorter, c \in cs}

\* every string over the alphabet up to the bound, and a plain sentence
NormInputs == StringsUpTo(NormAlphabet, MaxNormLen) \cup {Chars("said, clearly")}

DecorationKinds == {"quotes", "upper", "padding", "inner_space", "terminal", "all"}

\* letters of s in upper case
StrUpper(s) ==
    [i \in 1..Len(s) |->
        IF s[i] \in LowerSet
        THEN UpperSeq[CHOOSE k \in 1..Len(LowerSeq) : LowerSeq[k] = s[i]]
        ELSE s[i]]

\* every space of s doubled
RECURSIVE DoubleSpaces(_)
DoubleSpaces(s) ==
    IF s = <<>> THEN <<>>
    ELSE IF s[1] = " " THEN <<" ", " ">> \o DoubleSpaces(Tail(s))
    ELSE <<s[1]>> \o DoubleSpaces(Tail(s))

\* s with its first character in upper case
Capitalize(s) == IF s = <<>> THEN s ELSE StrUpper(<<s[1]>>) \o Tail(s)

\* the variants of a text the normalizer is said not to distinguish; "all"
\* turns "said, clearly" into "  'Said,  clearly!!'  "
Decorate(kind, s) ==
    CASE kind = "quotes"      -> <<"'">> \o s \o <<"'">>
      [] kind = "upper"       -> StrUpper(s)
      [] kind = "padding"     -> <<" ", " ">> \o s \o <<" ", " ">>
      [] kind = "inner_space" -> DoubleSpaces(s)
      [] kind = "terminal"    -> s \o <<"!", "!">>
      [] kind = "all"         -> <<" ", " ", "'">> \o Capitalize(DoubleSpaces(s))
                                 \o <<"!", "!", "'", " ", " ">>

(***************************************************************************)
(* The analysis script as a state machine: analyze_quotes(), then          *)
(* generate_report(), then the console listing; the script can be run      *)
(* again on the unchanged corpus.                                          *)
(***************************************************************************)
AnalyzeIdle ==
    /\ corpus = <<>>
    /\ by_year = <<>>
    /\ run = 0
    /\ pc = "idle"
    /\ speeches = <<>>
    /\ scanned = 0
    /\ all_quotes = <<>>
    /\ all_pos = <<>>
    /\ used = {}
    /\ gi = 0
    /\ clusters = <<>>
    /\ quote_groups = <<>>
    /\ report = None
    /\ console = None
    /\ prev_report = None
    /\ prev_console = None

AnalyzeInit ==
    /\ corpus \in TablesUpTo(MaxSpeeches)
    /\ by_year \in SortByYear(corpus)
    /\ run = 1
    /\ pc = "start"
    /\ speeches = <<>>
    /\ scanned = 0
    /\ all_quotes = <<>>
    /\ all_pos = <<>>
    /\ used = {}
    /\ gi = 0
    /\ clusters = <<>>
    /\ quote_groups = <<>>
    /\ report = None
    /\ console = None
    /\ prev_report = None
    /\ prev_console = None

(***************************************************************************)
(* Corpora with more repeated quotations than the listings show            *)
(***************************************************************************)
MaxListed == 51

\* characters that normalize_quote leaves as they are
QuoteChars == Chars("abcdefghijklmnopqrstuvwxyz0123456789#$%&()*+/<=>@[]^_{|}~")

\* the quotation of speech i: one character, MIN_QUOTE_LENGTH times
RepeatedQuote(i) == [k \in 1..MIN_QUOTE_LENGTH |-> QuoteChars[i]]

Cited(i) == Chars("said \"") \o RepeatedQuote(i) \o Chars("\" ")

\* speech i cites its quotation twice, every fifth speech three times
ManyText(i) == Cited(i) \o Cited(i) \o (IF i % 5 = 0 THEN Cited(i) ELSE <<>>)

\* the year of speech i: the even rows before the odd ones, each in a year of
\* its own but for rows 1 and 3, which share one
ManyYear(i) ==
    IF i % 2 = 0 THEN 1946 + (i \div 2)
    ELSE IF i <= 3 THEN 1980
    ELSE 1980 + (i \div 2)

\* the table speeches with n such rows
ManySpeeches(n) ==
    [i \in 1..n |-> [id |-> i, year |-> ManyYear(i),
                     country_name |-> IF i % 3 = 0 THEN "India" ELSE "Brazil",
                     speaker |-> "Delegate", text |-> ManyText(i)]]

\* how many groups the corpora hold: none, one, and around the two limits
ListedSizes ==
    {n \in 0..MaxListed :
        \/ n <= 1
        \/ n \in (CONSOLE_TOP - 1)..(CONSOLE_TOP + 1)
        \/ n >= REPORT_TOP - 1}

AnalyzeManyInit ==
    /\ corpus \in {ManySpeeches(n) : n \in ListedSizes}
    /\ by_year \in SortByYear(corpus)
    /\ run = 1
    /\ pc = "start"
    /\ speeches = <<>>
    /\ scanned = 0
    /\ all_quotes = <<>>
    /\ all_pos = <<>>
    /\ used = {}
    /\ gi = 0
    /\ clusters = <<>>
    /\ quote_groups = <<>>
    /\ report = None
    /\ console = None
    /\ prev_report = None
    /\ prev_console = None

\* analyze_quotes, lines 158-168: connect and fetch the speeches by year
FetchSpeeches ==
    /\ pc = "start"
    /\ speeches' = by_year
    /\ pc' = "analyze"
    /\ UNCHANGED <<corpus, by_year, run, scanned, all_quotes, all_pos, used, gi, clusters,
                   quote_groups, report, console, prev_report, prev_console,
                   nq_vars, da_vars, dq_vars, at_vars, ex_vars>>

\* one round of the loop over speeches, lines 170-200: every pattern, every match
ScanSpeechWith(row, found) ==
    /\ all_quotes' = all_quotes \o [k \in 1..Len(found) |-> QuoteEntry(row, found[k])]
    /\ all_pos' = all_pos \o [k \in 1..Len(found) |-> found[k].match_start]

ScanSpeech ==
    /\ pc = "analyze"
    /\ scanned < Len(speeches)
    /\ ScanSpeechWith(speeches[scanned + 1], ScanOf(speeches[scanned + 1].text))
    /\ scanned' = scanned + 1
    /\ UNCHANGED <<corpus, by_year, run, pc, speeches, used, gi, clusters, quote_groups,
                   report, console, prev_report, prev_console,
                   nq_vars, da_vars, dq_vars, at_vars, ex_vars>>

\* lines 219-224: the group is closed
CloseGroup(group) ==
    /\ used' = used \cup {group[k] : k \in 1..Len(group)}
    /\ clusters' = Append(clusters, group)
    /\ quote_groups' =
          KeepGroup(quote_groups, [k \in 1..Len(group) |-> all_quotes[group[k]]])

\* one round of the grouping loop, lines 208-224, for i = gi + 1 (indices from 1)
GroupStep ==
    /\ pc = "analyze"
    /\ scanned = Len(speeches)
    /\ gi < Len(all_quotes)
    /\ gi' = gi + 1
    /\ IF gi + 1 \in used
       THEN UNCHANGED <<used, clusters, quote_groups>>
       ELSE CloseGroup(ClusterOf(all_quotes, used, gi + 1))
    /\ UNCHANGED <<corpus, by_year, run, pc, speeches, scanned, all_quotes, all_pos,
                   report, console, prev_report, prev_console,
                   nq_vars, da_vars, dq_vars, at_vars, ex_vars>>

\* the end of analyze_quotes, lines 226-231: sort by frequency and return
ReturnGroups ==
    /\ pc = "analyze"
    /\ scanned = Len(speeches)
    /\ gi = Len(all_quotes)
    /\ quote_groups' = SortByLenDesc(quote_groups)
    /\ pc' = "report"
    /\ UNCHANGED <<corpus, by_year, run, speeches, scanned, all_quotes, all_pos, used, gi,
                   clusters, report, console, prev_report, prev_console,
                   nq_vars, da_vars, dq_vars, at_vars, ex_vars>>

\* generate_report(quote_groups, output_path); the string hashes, and with
\* them the order in which a set lists the countries, are the process's
GenerateReport ==
    /\ pc = "report"
    /\ \E order \in SetOrders : report' = generate_report(quote_groups, order)
    /\ pc' = "console"
    /\ UNCHANGED <<corpus, by_year, run, speeches, scanned, all_quotes, all_pos, used, gi,
                   clusters, quote_groups, console, prev_report, prev_console,
                   nq_vars, da_vars, dq_vars, at_vars, ex_vars>>

\* the console listing of the top 10, lines 329-350
PrintTop10 ==
    /\ pc = "console"
    /\ console' = top10(quote_groups)
    /\ pc' = "done"
    /\ UNCHANGED <<corpus, by_year, run, speeches, scanned, all_quotes, all_pos, used, gi,
                   clusters, quote_groups, report, prev_report, prev_console,
                   nq_vars, da_vars, dq_vars, at_vars, ex_vars>>

\* the script is started again; the corpus is as it was
RunAgain ==
    /\ pc = "done"
    /\ run < MaxRuns
    /\ run' = run + 1
    /\ prev_report' = report
    /\ prev_console' = console
    /\ pc' = "start"
    /\ speeches' = <<>>
    /\ scanned' = 0
    /\ all_quotes' = <<>>
    /\ all_pos' = <<>>
    /\ used' = {}
    /\ gi' = 0
    /\ clusters' = <<>>
    /\ quote_groups' = <<>>
    /\ report' = None
    /\ console' = None
    /\ UNCHANGED <<corpus, by_year, nq_vars, da_vars, dq_vars, at_vars, ex_vars>>

AnalyzeNext ==
    \/ FetchSpeeches
    \/ ScanSpeech
    \/ GroupStep
    \/ ReturnGroups
    \/ GenerateReport
    \/ PrintTop10
    \/ RunAgain

AttrIdle ==
    /\ at_pc = "idle"
    /\ at_case = <<>>
    /\ at_extracted = <<>>
    /\ at_targeted = <<>>
    /\ at_scanned = <<>>

ExtractIdle ==
    /\ ex_pc = "idle"
    /\ ex_run = 0
    /\ ex_store = "available"
    /\ ex_figures_table = <<>>
    /\ ex_chunks_table = <<>>
    /\ ex_chunks_by_year = <<>>
    /\ ex_table = <<>>
    /\ ex_pending = <<>>
    /\ ex_before = <<>>
    /\ ex_prev = "none"
    /\ ex_figures = <<>>
    /\ ex_fi = 0
    /\ ex_totals = <<0, 0>>
    /\ ex_error = "none"

NormIdle ==
    /\ nq_pc = "idle"
    /\ nq_in = <<>>
    /\ nq_kind = "quotes"
    /\ nq_out = <<>>
    /\ nq_out2 = <<>>
    /\ nq_deco_out = <<>>


NormInit ==
    /\ DiscourseIdle
    /\ DedupIdle
    /\ AnalyzeIdle
    /\ AttrIdle
    /\ ExtractIdle
    /\ nq_pc = "start"
    /\ nq_in \in NormInputs
    /\ nq_kind \in DecorationKinds
    /\ nq_out = <<>>
    /\ nq_out2 = <<>>
    /\ nq_deco_out = <<>>

NormalizeInput ==
    /\ nq_pc = "start"
    /\ nq_out' = normalize_quote(nq_in)
    /\ nq_pc' = "once"
    /\ UNCHANGED <<nq_in, nq_kind, nq_out2, nq_deco_out, an_vars, da_vars, dq_vars, at_vars, ex_vars>>

NormalizeAgain ==
    /\ nq_pc = "once"
    /\ nq_out2' = normalize_quote(nq_out)
    /\ nq_pc' = "twice"
    /\ UNCHANGED <<nq_in, nq_kind, nq_out, nq_deco_out, an_vars, da_vars, dq_vars, at_vars, ex_vars>>

NormalizeDecorated ==
    /\ nq_pc = "twice"
    /\ nq_deco_out' = normalize_quote(Decorate(nq_kind, nq_in))
    /\ nq_pc' = "done"
    /\ UNCHANGED <<nq_in, nq_kind, nq_out, nq_out2, an_vars, da_vars, dq_vars, at_vars, ex_vars>>

NormNext == NormalizeInput \/ NormalizeAgain \/ NormalizeDecorated

SpecNormalize == NormInit /\ [][NormNext]_vars

(***************************************************************************)
(* Attribution harness: the figure-anchored extraction and the untargeted  *)
(* scan applied to a text in which an alias is followed by "said" and a    *)
(* quoted span                                                             *)
(***************************************************************************)
\* rows of notable_figures: id, name, search_patterns (a JSON array)
NotableFigures == <<
    [id |-> 1, name |-> Chars("Nelson Mandela"),
     search_patterns |-> Chars("[\"Nelson Mandela\", \"Mandela\"]")],
    [id |-> 2, name |-> Chars("Mahatma Gandhi"),
     search_patterns |-> Chars("[\"Gandhi\"]")]
>>

\* the aliases the texts use, each with the row of its figure
CaseAliases == {[alias |-> Chars("Nelson Mandela"), figure |-> 1],
                [alias |-> Chars("Gandhi"), figure |-> 2]}

CasePrefixes == {<<>>, Chars("Like Mandela, "), Chars("As ")}

CaseCues == {Chars(" said, "), Chars(" said: "), Chars(" said "), Chars(" once said, ")}

\* opening and closing quotation mark
CaseMarks == {<<"\"", "\"">>, <<LDQUO, RDQUO>>}

\* quoted spans of 38, 12 and 9 characters
CaseSpans == {Chars("Education is the most powerful weapon."),
              Chars("Peace first."),
              Chars("Be brave.")}

AttrCases ==
    {[prefix |-> p, alias |-> a.alias, figure |-> a.figure, cue |-> c, marks |-> m,
      span |-> sp,
      text |-> p \o a.alias \o c \o <<m[1]>> \o sp \o <<m[2]>>] :
        p \in CasePrefixes, a \in CaseAliases, c \in CaseCues, m \in CaseMarks,
        sp \in CaseSpans}

\* the join of chunks and speeches for a store that holds the text as its one chunk
OneChunk(text) ==
    <<[chunk_id |-> 1, speech_id |-> 1, text |-> text, year |-> 2000,
       country_name |-> "South Africa", speaker |-> "Delegate"]>>

AttrInit ==
    /\ DiscourseIdle
    /\ DedupIdle
    /\ NormIdle
    /\ AnalyzeIdle
    /\ ExtractIdle
    /\ at_pc = "start"
    /\ at_case \in AttrCases
    /\ at_extracted = <<>>
    /\ at_targeted = <<>>
    /\ at_scanned = <<>>

\* main, lines 199-200, with what extract_quotations_for_figure returns
Deduplicated(quotations) ==
    /\ at_extracted' = quotations
    /\ at_targeted' = deduplicate_quotations(quotations)

\* main, lines 199-200, for the figure of the case
TargetedExtract ==
    /\ at_pc = "start"
    /\ Deduplicated(extract_quotations_for_figure(OneChunk(at_case.text),
                         NotableFigures[at_case.figure].id,
                         NotableFigures[at_case.figure].name,
                         NotableFigures[at_case.figure].search_patterns).quotations)
    /\ at_pc' = "extracted"
    /\ UNCHANGED <<at_case, at_scanned, nq_vars, an_vars, da_vars, dq_vars, ex_vars>>

\* analyze_quotes, lines 170-200, for the text as the one speech
UntargetedScan ==
    /\ at_pc = "extracted"
    /\ at_scanned' = ScanText(at_case.text)
    /\ at_pc' = "scanned"
    /\ UNCHANGED <<at_case, at_extracted, at_targeted, nq_vars, an_vars, da_vars, dq_vars, ex_vars>>

AttrNext == TargetedExtract \/ UntargetedScan

SpecAttributed == AttrInit /\ [][AttrNext]_vars

(***************************************************************************)
(* Texts that name speakers before a quotation                             *)
(***************************************************************************)
\* what a text can say before the sentence that quotes
SpeakerIntros == {
    <<>>,
    Chars("John Smith said that "),
    Chars("President Adam Jones agreed. "),
    Chars("In the words of Mary Clark, "),
    Chars("We were quoting Paul Stone. "),
    Chars("Tom Reed Hill wrote. "),
    Chars("Eleanor Roosevelt spoke. "),
    Chars("Like Gandhi and Mandela, "),
    Chars("Lincoln and Churchill agreed. "),
    Chars("The Secretary-General spoke. ")
}

\* the intros that can come second
SecondIntros == {
    <<>>,
    Chars("John Smith said that "),
    Chars("President Adam Jones agreed. "),
    Chars("Eleanor Roosevelt spoke. "),
    Chars("Like Gandhi and Mandela, ")
}

\* the words that introduce the quotation
SpeakerFinals == {
    Chars("he said, "),
    Chars("Dr. Brown wrote, "),
    Chars("Peter Green said, "),
    Chars("Mr. Lee declared: ")
}

SpeakerCases ==
    {[figure |-> 1,
      text |-> a \o b \o f \o Chars("\"" \o CHARTER_A \o "\"")] :
        a \in SpeakerIntros, b \in SecondIntros, f \in SpeakerFinals}

SpeakerInit ==
    /\ DiscourseIdle
    /\ DedupIdle
    /\ NormIdle
    /\ AnalyzeIdle
    /\ ExtractIdle
    /\ at_pc = "start"
    /\ at_case \in SpeakerCases
    /\ at_extracted = <<>>
    /\ at_targeted = <<>>
    /\ at_scanned = <<>>

SpecSpeaker == SpeakerInit /\ [][AttrNext]_vars

(***************************************************************************)
(* Chunks in which several attribution patterns and indicators apply       *)
(***************************************************************************)
\* the sentence a chunk opens with, around the alias
CascadeLeads(alias) == {
    <<>>,
    Chars("He said ") \o alias \o Chars(": \"Courage is a choice.\" "),
    alias \o Chars(" reminded us \"Courage is a choice.\" "),
    alias \o Chars(" believed it. "),
    Chars("According to ") \o alias \o Chars(", yes. "),
    Chars("The legacy of ") \o alias \o Chars(" lives. ")
}

\* the sentence a chunk ends with, around the alias
CascadeTails(alias) == {
    Chars("In the words of ") \o alias \o Chars(", \"Peace is the only way.\""),
    alias \o Chars(" said, \"Peace is the only way.\""),
    Chars("\"Peace is the only way.\" - ") \o alias,
    Chars("As ") \o alias \o Chars(" said, \"Peace is the only way.\""),
    Chars("We honour ") \o alias \o Chars("."),
    alias \o Chars(" argued for it.")
}

\* the aliases the chunks use, each with the row of its figure
CascadeAliases == CaseAliases \cup {[alias |-> Chars("Mandela"), figure |-> 1]}

CascadeCases ==
    UNION {{[figure |-> a.figure, text |-> lead \o tail] :
               lead \in CascadeLeads(a.alias), tail \in CascadeTails(a.alias)} :
           a \in CascadeAliases}

CascadeInit ==
    /\ DiscourseIdle
    /\ DedupIdle
    /\ NormIdle
    /\ AnalyzeIdle
    /\ ExtractIdle
    /\ at_pc = "start"
    /\ at_case \in CascadeCases
    /\ at_extracted = <<>>
    /\ at_targeted = <<>>
    /\ at_scanned = <<>>

SpecCascade == CascadeInit /\ [][AttrNext]_vars

(***************************************************************************)
(* extract_quotations.py: main() as a state machine over the store         *)
(***************************************************************************)
MaxChunks == 2
MaxExtractRuns == 2

\* the rows notable_figures can hold under each id: the row as curated, and
\* the row with search_patterns that are no JSON
FigurePool == <<
    {NotableFigures[1],
     [NotableFigures[1] EXCEPT !.search_patterns = Chars("Nelson Mandela, Mandela")]},
    {NotableFigures[2],
     [NotableFigures[2] EXCEPT !.search_patterns = Chars("Gandhi")],
     [NotableFigures[2] EXCEPT !.search_patterns = Chars("\"Gandhi\"")],
     [NotableFigures[2] EXCEPT !.search_patterns = Chars("null")]}
>>

\* the tables notable_figures can be, as this store yields the rows for the
\* SELECT of line 188; the query has no ORDER BY, so that the order of the
\* rows is the store's
FigureTables ==
    {<<>>}
    \cup {<<a>> : a \in FigurePool[1] \cup FigurePool[2]}
    \cup {<<a, b>> : a \in FigurePool[1], b \in FigurePool[2]}
    \cup {<<b, a>> : a \in FigurePool[1], b \in FigurePool[2]}

\* the chunks a store is drawn from: year and country of the speech, and text
ChunkPool == {
    [year |-> 2000, country_name |-> "South Africa",
     text |-> Chars("Nelson Mandela said, \"Education is the most powerful weapon.\"")],
    [year |-> 1990, country_name |-> "India",
     text |-> Chars("We honour Gandhi. Mandela believed in peace.")],
    [year |-> 2010, country_name |-> "Brazil",
     text |-> Chars("As Mandela said, \"Peace first.\"")],
    [year |-> 1990, country_name |-> "Brazil",
     text |-> Chars("According to Gandhi, truth prevails.")],
    [year |-> 2000, country_name |-> "India",
     text |-> Chars("\"Peace is the only way forward\", said Gandhi")]
}

\* the joins of chunks and speeches up to n rows, each chunk the one chunk of
\* its speech, ids in table order
RECURSIVE ChunkTablesUpTo(_)
ChunkTablesUpTo(n) ==
    IF n = 0 THEN {<<>>}
    ELSE LET shorter == ChunkTablesUpTo(n - 1)
         IN  shorter \cup
             {Append(t, [chunk_id |-> Len(t) + 1, speech_id |-> Len(t) + 1,
                         text |-> r.text, year |-> r.year,
                         country_name |-> r.country_name, speaker |-> "Delegate"]) :
                 t \in {u \in shorter : Len(u) = n - 1}, r \in ChunkPool}

\* the condition of the store during a run: usable, not to be opened, or
\* opened without the table notable_figures or without the table chunks
StoreConditions == {"available", "cannot_open", "no_notable_figures", "no_chunks"}

\* lines 199-200 for one figure over the chunks: the exception of line 25 or
\* of the loop header of line 29, how many patterns there are, the exception
\* of the loop, and the quotations left after deduplication
FigureRun(conn, figure, found, result) ==
    [chunks |-> conn,
     figure |-> figure,
     loaded |-> found.err,
     n_patterns |-> Len(found.items),
     err |-> result.err,
     quotations |-> deduplicate_quotations(result.quotations)]

FigureRunFor(conn, figure, found) ==
    FigureRun(conn, figure, found, ExtractWith(conn, figure.id, found))

\* computed once for every store
FigureRunMemo ==
    {FigureRunFor(p[1], p[2], PatternsOf(json_loads(p[2].search_patterns))) :
        p \in (UNION {OrderByYearDesc(t) : t \in ChunkTablesUpTo(MaxChunks)})
              \X (FigurePool[1] \cup FigurePool[2])}

FigureRunOf(conn, figure) ==
    CHOOSE e \in FigureRunMemo : e.chunks = conn /\ e.figure = figure

\* sum(1 for q in quotations if q['is_direct_quote'])
RECURSIVE direct_count(_)
direct_count(quotations) ==
    IF Len(quotations) = 0 THEN 0
    ELSE (IF quotations[1].is_direct_quote THEN 1 ELSE 0) + direct_count(Tail(quotations))

\* faulty clearing: the rows of the table are kept
ClearedTable_Kept(table) == table

\* DELETE FROM quotations, committed
ClearedTable(table) == <<>>

ExtractInit ==
    /\ DiscourseIdle
    /\ DedupIdle
    /\ NormIdle
    /\ AnalyzeIdle
    /\ AttrIdle
    /\ ex_pc = "start"
    /\ ex_run = 1
    /\ ex_store \in StoreConditions
    /\ ex_figures_table \in FigureTables
    /\ ex_chunks_table \in ChunkTablesUpTo(MaxChunks)
    /\ ex_chunks_by_year \in OrderByYearDesc(ex_chunks_table)
    /\ ex_table = <<>>
    /\ ex_pending = <<>>
    /\ ex_before = <<>>
    /\ ex_prev = "none"
    /\ ex_figures = <<>>
    /\ ex_fi = 0
    /\ ex_totals = <<0, 0>>
    /\ ex_error = "none"

\* an exception leaves main: the script ends and the open transaction is
\* rolled back
Raise(exception) ==
    /\ ex_pc' = "aborted"
    /\ ex_error' = exception
    /\ ex_pending' = <<>>

\* main, line 179: conn = get_connection()
GetConnection ==
    /\ ex_pc = "start"
    /\ IF ex_store = "cannot_open"
       THEN Raise("OperationalError")
       ELSE ex_pc' = "connected" /\ UNCHANGED <<ex_error, ex_pending>>
    /\ UNCHANGED <<ex_run, ex_store, ex_figures_table, ex_chunks_by_year,
                   ex_chunks_table, ex_table,
                   ex_before, ex_prev, ex_figures, ex_fi, ex_totals,
                   nq_vars, an_vars, da_vars, dq_vars, at_vars>>

\* main, lines 183-185: DELETE FROM quotations and commit
ClearQuotations ==
    /\ ex_pc = "connected"
    /\ ex_table' = ClearedTable(ex_table)
    /\ ex_pc' = "cleared"
    /\ UNCHANGED <<ex_run, ex_store, ex_figures_table, ex_chunks_by_year,
                   ex_chunks_table, ex_pending,
                   ex_before, ex_prev, ex_figures, ex_fi, ex_totals, ex_error,
                   nq_vars, an_vars, da_vars, dq_vars, at_vars>>

\* main, lines 188-191: the rows of notable_figures
FetchFigures ==
    /\ ex_pc = "cleared"
    /\ IF ex_store = "no_notable_figures"
       THEN Raise("OperationalError") /\ UNCHANGED ex_figures
       ELSE /\ ex_figures' = ex_figures_table
            /\ ex_pc' = "figures"
            /\ UNCHANGED <<ex_error, ex_pending>>
    /\ UNCHANGED <<ex_run, ex_store, ex_figures_table, ex_chunks_by_year,
                   ex_chunks_table, ex_table,
                   ex_before, ex_prev, ex_fi, ex_totals, nq_vars, an_vars, da_vars, dq_vars, at_vars>>

\* one round of the loop over figures, lines 196-220, with what lines 199-200
\* give for the figure: json.loads or the loop header can raise, the query on
\* chunks can raise, the loop body can raise, otherwise the quotations are
\* inserted in the open transaction
ProcessFigureWith(found) ==
    IF found.loaded /= "none"
    THEN Raise(found.loaded) /\ UNCHANGED <<ex_fi, ex_totals>>
    ELSE IF ex_store = "no_chunks" /\ found.n_patterns > 0
    THEN Raise("OperationalError") /\ UNCHANGED <<ex_fi, ex_totals>>
    ELSE IF found.err /= "none"
    THEN Raise(found.err) /\ UNCHANGED <<ex_fi, ex_totals>>
    ELSE /\ ex_pending' = ex_pending \o found.quotations
         /\ ex_totals' = <<ex_totals[1] + Len(found.quotations),
                           ex_totals[2] + direct_count(found.quotations)>>
         /\ ex_fi' = ex_fi + 1
         /\ UNCHANGED <<ex_pc, ex_error>>

ProcessFigure ==
    /\ ex_pc = "figures"
    /\ ex_fi < Len(ex_figures)
    /\ ProcessFigureWith(FigureRunOf(ex_chunks_by_year, ex_figures[ex_fi + 1]))
    /\ UNCHANGED <<ex_run, ex_store, ex_figures_table, ex_chunks_by_year,
                   ex_chunks_table, ex_table,
                   ex_before, ex_prev, ex_figures, nq_vars, an_vars, da_vars, dq_vars, at_vars>>

\* main, line 222: conn.commit()
CommitQuotations ==
    /\ ex_pc = "figures"
    /\ ex_fi = Len(ex_figures)
    /\ ex_table' = ex_table \o ex_pending
    /\ ex_pending' = <<>>
    /\ ex_pc' = "committed"
    /\ UNCHANGED <<ex_run, ex_store, ex_figures_table, ex_chunks_by_year,
                   ex_chunks_table, ex_before,
                   ex_prev, ex_figures, ex_fi, ex_totals, ex_error,
                   nq_vars, an_vars, da_vars, dq_vars, at_vars>>

\* main, lines 224-257: the totals and the listings are printed from queries
\* that read the store, and the connection is closed
PrintSummary ==
    /\ ex_pc = "committed"
    /\ ex_pc' = "done"
    /\ UNCHANGED <<ex_run, ex_store, ex_figures_table, ex_chunks_by_year,
                   ex_chunks_table, ex_table,
                   ex_pending, ex_before, ex_prev, ex_figures, ex_fi, ex_totals,
                   ex_error, nq_vars, an_vars, da_vars, dq_vars, at_vars>>

\* the script is started again on the unchanged tables; the store is in some
\* condition during the new run
RunExtractAgain ==
    /\ ex_pc \in {"done", "aborted"}
    /\ ex_run < MaxExtractRuns
    /\ ex_run' = ex_run + 1
    /\ ex_store' \in StoreConditions
    /\ ex_before' = ex_table
    /\ ex_prev' = ex_pc
    /\ ex_pc' = "start"
    /\ ex_figures' = <<>>
    /\ ex_fi' = 0
    /\ ex_totals' = <<0, 0>>
    /\ ex_error' = "none"
    /\ UNCHANGED <<ex_figures_table, ex_chunks_by_year, ex_chunks_table, ex_table, ex_pending,
                   nq_vars, an_vars, da_vars, dq_vars, at_vars>>

ExtractNext ==
    \/ GetConnection
    \/ ClearQuotations
    \/ FetchFigures
    \/ ProcessFigure
    \/ CommitQuotations
    \/ PrintSummary
    \/ RunExtractAgain

SpecExtract == ExtractInit /\ [][ExtractNext]_vars

IdleAll == NormIdle /\ AnalyzeIdle /\ AttrIdle /\ ExtractIdle

Init == AnalyzeInit /\ NormIdle /\ AttrIdle /\ ExtractIdle /\ DedupIdle /\ DiscourseIdle

Next == AnalyzeNext

Spec == Init /\ [][Next]_vars

TopInit == AnalyzeManyInit /\ NormIdle /\ AttrIdle /\ ExtractIdle /\ DedupIdle /\ DiscourseIdle

SpecTopN == TopInit /\ [][AnalyzeNext]_vars

\* C1: normalize_quote is idempotent: normalizing a normalized text
\* returns it unchanged.
C1_Idempotent == nq_pc \in {"twice", "done"} => nq_out2 = nq_out

\* C2: a text wrapped in quotation marks, padded or spaced out, in upper
\* case or with terminal punctuation normalizes to the key of the plain text.
C2_DecorationInsensitive == nq_pc = "done" => nq_deco_out = nq_out

(***************************************************************************)
(* Properties of the analysis run                                          *)
(***************************************************************************)
\* the grouping pass of this run has ended
GroupingDone ==
    \/ pc \in {"report", "console", "done"}
    \/ pc = "analyze" /\ scanned = Len(speeches) /\ gi = Len(all_quotes)

\* analyze_quotes has returned in this run
Returned == pc \in {"report", "console", "done"}

\* generate_report has written the report of this run
Reported == pc \in {"console", "done"}

\* the members of cluster c, as a set of candidate indices
Members(c) == {clusters[c][k] : k \in 1..Len(clusters[c])}

\* candidates i and j are in one cluster
SameCluster(i, j) == \E c \in 1..Len(clusters) : i \in Members(c) /\ j \in Members(c)

\* candidate i precedes candidate j and are_similar(q_i, q_j), the call the
\* grouping pass makes for a seed i and a later candidate j
SimilarPair(i, j) ==
    i < j /\ Similar(all_quotes[i].normalized, all_quotes[j].normalized)

\* C3 as stated: any two candidates of one pass whose normalized texts are
\* at least 0.85 similar are in the same cluster.
C3_SimilarTogether ==
    GroupingDone =>
        \A i, j \in 1..Len(all_quotes) : SimilarPair(i, j) => SameCluster(i, j)

\* C3, amended: a candidate that is at least 0.85 similar to a seed before it
\* is in that seed's cluster, unless it is in the cluster of an earlier seed.
C3_SimilarToSeed ==
    GroupingDone =>
        \A c \in 1..Len(clusters) : \A j \in 1..Len(all_quotes) :
            SimilarPair(clusters[c][1], j) =>
                \/ j \in Members(c)
                \/ \E b \in 1..(c - 1) : j \in Members(b)

\* C3 witness: the pass has ended, a candidate joined a seed, and two similar
\* candidates are in different clusters.
C3_Witness ==
    /\ GroupingDone
    /\ \E c \in 1..Len(clusters) : Len(clusters[c]) >= 2
    /\ \E i, j \in 1..Len(all_quotes) : SimilarPair(i, j) /\ ~SameCluster(i, j)

\* the members of cluster c as the entries of all_quotes
GroupOfCluster(c) == [k \in 1..Len(clusters[c]) |-> all_quotes[clusters[c][k]]]

\* C4: every group kept has at least 2 members and is a cluster of at least
\* 2 candidates, and the report lists no group with fewer than 2 occurrences.
C4_NoSingletons ==
    /\ \A g \in 1..Len(quote_groups) :
          /\ Len(quote_groups[g]) >= 2
          /\ \E c \in 1..Len(clusters) :
                Len(clusters[c]) >= 2 /\ quote_groups[g] = GroupOfCluster(c)
    /\ Len(quote_groups) = Cardinality({c \in 1..Len(clusters) : Len(clusters[c]) >= 2})
    /\ Reported => \A e \in 1..Len(report.entries) : report.entries[e].count >= 2

\* C4 witness: analyze_quotes returned a group and dropped a singleton cluster.
C4_Witness ==
    /\ pc = "done"
    /\ Len(quote_groups) >= 1
    /\ \E c \in 1..Len(clusters) : Len(clusters[c]) = 1

\* the text carries the sentence between quotation marks
QuotesSentence(text, sentence) == Contains(text, <<"\"">> \o Chars(sentence) \o <<"\"">>)

\* C5: two speeches that each quote the same sentence once give exactly one
\* group, with count 2.
C5_TwoSpeechesCountTwo ==
    (/\ Returned
     /\ Len(corpus) = 2
     /\ \A k \in 1..2 : QuotesSentence(corpus[k].text, CHARTER_A))
    => (Len(quote_groups) = 1 /\ Len(quote_groups[1]) = 2)

\* C6: the candidates that enter the grouping pass never hold two entries
\* with the same speech_id and the same normalized text.
C6_OnePerSpeechAndText ==
    \A i, j \in 1..Len(all_quotes) :
        (i /= j /\ all_quotes[i].speech_id = all_quotes[j].speech_id)
        => all_quotes[i].normalized /= all_quotes[j].normalized

\* the text of the speech candidate k was found in
SpeechText(k) == corpus[all_quotes[k].speech_id].text

\* the window identify_speaker looked at for candidate k
WindowOf(k) == ContextWindow(SpeechText(k), all_pos[k])

\* the names of the figures an alias of which occurs in the window w
AliasNamesIn(w) ==
    {FAMOUS_FIGURES[f].name :
        f \in {g \in 1..Len(FAMOUS_FIGURES) : Contains(StrLower(w), FAMOUS_FIGURES[g].key)}}

\* the window w holds an alias or a match of a name pattern
NamedIn(w) ==
    \/ AliasNamesIn(w) /= {}
    \/ \E p \in 1..Len(name_patterns) : re_search(name_patterns[p], w, FALSE, <<>>).end >= 0

\* the texts of the pool with the positions at which the scan finds a match
ScanPositions ==
    UNION {{<<e[1], e[2][k].match_start>> : k \in 1..Len(e[2])} : e \in ScanMemo}

\* for each of them the window, whether it is named and the alias names in
\* it, computed once
WindowMemo ==
    {[text |-> p[1], pos |-> p[2],
      window |-> ContextWindow(p[1], p[2]),
      named |-> NamedIn(ContextWindow(p[1], p[2])),
      alias_names |-> AliasNamesIn(ContextWindow(p[1], p[2]))] : p \in ScanPositions}

\* what is known of the window of candidate k
WindowFacts(k) == CHOOSE e \in WindowMemo : e.text = SpeechText(k) /\ e.pos = all_pos[k]

\* the name given with a window is none, the name of an alias in the
\* window or a text of the window, and none when the window is not named
NameFromWindow(facts, quoted_person) ==
    /\ \/ quoted_person = None
       \/ quoted_person \in facts.alias_names
       \/ Contains(facts.window, quoted_person)
    /\ ~facts.named => quoted_person = None

\* C8: the quoted_person of a candidate is null, the name of an alias that
\* occurs in its context window, or a text that occurs literally in the
\* window; it is null when the window holds no alias and no name-pattern match.
C8_NoFabricatedName ==
    \A k \in 1..Len(all_quotes) :
        NameFromWindow(WindowFacts(k), all_quotes[k].quoted_person)

\* C8 witness: the scan has made a candidate without a name near it, one
\* named by an alias and one named by a name pattern.
C8_Witness ==
    /\ pc = "analyze" /\ gi = 0 /\ scanned = Len(speeches)
    /\ \E k \in 1..Len(all_quotes) :
          ~WindowFacts(k).named /\ all_quotes[k].quoted_person = None
    /\ \E k \in 1..Len(all_quotes) :
          all_quotes[k].quoted_person \in WindowFacts(k).alias_names
    /\ \E k \in 1..Len(all_quotes) :
          /\ all_quotes[k].quoted_person /= None
          /\ all_quotes[k].quoted_person \notin WindowFacts(k).alias_names
          /\ Contains(WindowOf(k), all_quotes[k].quoted_person)

\* C9: a second run on the unchanged corpus writes the report and the console
\* listing of the first run.
C9_SameOutputTwice ==
    (run = 2 /\ pc = "done") => (report = prev_report /\ console = prev_console)

\* the curated source and explanation of the quotation shown for a group
ShownSource(entry) == QuoteSource(normalize_quote(entry.quote))

\* C10: a reported group whose shown quotation contains or is similar to a
\* curated famous quote carries that entry's source and explanation.
C10_KnownQuoteOverride ==
    Reported =>
        \A e \in 1..Len(report.entries) :
            Truthy(ShownSource(report.entries[e])[1]) =>
                /\ report.entries[e].source = ShownSource(report.entries[e])[1]
                /\ report.entries[e].explanation = ShownSource(report.entries[e])[2]
                /\ report.entries[e].attributed_to = None

(***************************************************************************)
(* Properties of the attribution of a text "<alias> said <quoted span>"    *)
(***************************************************************************)
\* the targeted extraction kept a direct quote of the figure, confidence >= 0.9
TargetedDirect ==
    \E k \in 1..Len(at_targeted) :
        /\ at_targeted[k].is_direct_quote
        /\ at_targeted[k].figure_id = NotableFigures[at_case.figure].id
        /\ at_targeted[k].confidence_score >= 90

\* the untargeted scan made a candidate whose quoted_person is the figure
ScannedAsFigure ==
    \E k \in 1..Len(at_scanned) :
        at_scanned[k].quoted_person = NotableFigures[at_case.figure].name

\* the text names no figure of FAMOUS_FIGURES other than the one of the case
NoOtherFigure ==
    \A f \in 1..Len(FAMOUS_FIGURES) :
        Contains(StrLower(at_case.text), FAMOUS_FIGURES[f].key)
        => FAMOUS_FIGURES[f].name = NotableFigures[at_case.figure].name

\* the span is long enough for every pattern family: 20 characters are left
\* of it after normalization, and it has at most 300
LongEnough ==
    /\ Len(at_case.span) <= 300
    /\ Len(normalize_quote(at_case.span)) >= MIN_QUOTE_LENGTH

\* C7: a text in which an alias is followed by "said" and a quoted span, long
\* enough and naming no other figure, yields a direct quote of the figure
\* with confidence >= 0.9, and the untargeted scan a candidate whose
\* quoted_person is the figure.
C7_AliasSaidQuote ==
    (at_pc = "scanned" /\ LongEnough /\ NoOtherFigure)
    => (TargetedDirect /\ ScannedAsFigure)

\* What holds of such a text: the targeted extraction yields the direct quote
\* when the span has 10 to 500 characters; the untargeted scan yields the
\* candidate when, besides, the span stands in ASCII quotation marks.
AliasSaidAsciiQuote ==
    at_pc = "scanned" =>
        /\ (Len(at_case.span) >= 10 /\ Len(at_case.span) <= 500) => TargetedDirect
        /\ (at_case.marks = <<"\"", "\"">> /\ LongEnough /\ NoOtherFigure)
           => ScannedAsFigure

\* both scans have run on
\* Nelson Mandela said, "Education is the most powerful weapon."
\* and made the candidates
MandelaExample ==
    /\ at_pc = "scanned"
    /\ at_case.text = Chars("Nelson Mandela said, \"Education is the most powerful weapon.\"")
    /\ TargetedDirect
    /\ ScannedAsFigure

\* the attribution a group without curated source is said to get: the most
\* frequent quoted_person that is not null, "Unknown" when there is none
FallbackAttribution(group) ==
    IF SpeakersOf(group) = <<>> THEN Chars("Unknown") ELSE MostCommon(SpeakersOf(group))

\* C11: a group that matches no curated famous quote is attributed, in the
\* report and in the console listing, to the most frequent non-null
\* quoted_person of its members, or to "Unknown" when no member has one.
C11_FallbackToMajorityOrUnknown ==
    /\ Reported =>
          \A e \in 1..Len(report.entries) :
              report.entries[e].source = None =>
                  report.entries[e].attributed_to = FallbackAttribution(quote_groups[e])
    /\ pc = "done" =>
          \A e \in 1..Len(console) :
              ~Truthy(QuoteSource(quote_groups[e][1].normalized)[1]) =>
                  console[e].attribution = FallbackAttribution(quote_groups[e])

(***************************************************************************)
(* Properties of the runs of the extraction main                           *)
(***************************************************************************)
\* the quotations of the figures from row k on whose search_patterns parse
RECURSIVE QuotationsOfParsable(_, _, _)
QuotationsOfParsable(conn, figures, k) ==
    IF k > Len(figures) THEN <<>>
    ELSE FigureRunOf(conn, figures[k]).quotations
         \o QuotationsOfParsable(conn, figures, k + 1)

\* the rows a run over the store produces
Produced == QuotationsOfParsable(ex_chunks_by_year, ex_figures_table, 1)

\* the run has ended without an exception
ExtractDone == ex_pc = "done"

\* C12: after a successful run the table quotations holds exactly the rows
\* that run produced, and a successful run after a successful run leaves the
\* rows the first one left.
C12_ReplacedNotAppended ==
    ExtractDone =>
        /\ ex_table = Produced
        /\ ex_prev = "done" => ex_table = ex_before

\* C12 witness: a second successful run has ended on a table that the first
\* one had filled.
C12_Witness ==
    /\ ExtractDone
    /\ ex_run = 2
    /\ ex_prev = "done"
    /\ Len(ex_before) >= 2

\* C13: after a run that failed, a reader finds the rows from before the run
\* or the rows of the complete run, never a cleared or half-filled table.
C13_SingleTransaction ==
    ex_pc = "aborted" => (ex_table = ex_before \/ ex_table = Produced)

\* C14: with a usable store, a figure whose search_patterns do not parse is
\* skipped: the run ends without an exception and the table holds the
\* quotations of the other figures.
C14_CorruptFigureSkipped ==
    (ex_store = "available" /\ ex_pc \in {"done", "aborted"})
    => (ExtractDone /\ ex_table = Produced)

\* C15: when a run is aborted by a failing store operation, the table
\* quotations holds what it held before the run.
C15_AbortBeforeAnyWrite ==
    (ex_pc = "aborted" /\ ex_error = "OperationalError") => ex_table = ex_before


\* the entries of attribution_patterns that match the context of one alias
MatchingAttributions(context_text, pattern) ==
    {k \in 1..Len(attribution_patterns) :
        re_search(attribution_patterns[k].regex, StrLower(context_text), TRUE,
                  StrLower(pattern)).end >= 0}

\* over the aliases from alias p on that the text contains: how many entries
\* of attribution_patterns match around the alias
RECURSIVE AttributionMatches(_, _, _)
AttributionMatches(text, patterns, p) ==
    IF p > Len(patterns) THEN 0
    ELSE (IF Like(text, patterns[p])
          THEN Cardinality(MatchingAttributions(
                   ContextText(text, patterns[p],
                               Find(StrLower(text), StrLower(patterns[p]))),
                   patterns[p]))
          ELSE 0)
         + AttributionMatches(text, patterns, p + 1)

\* over the entries of all_patterns from entry p on: how many quoted spans
\* of the text they match that pass both length tests of the scan
RECURSIVE PatternMatches(_, _)
PatternMatches(text, p) ==
    IF p > Len(all_patterns) THEN 0
    ELSE Cardinality({k \in DOMAIN re_finditer(all_patterns[p], text, TRUE) :
             QuoteFound(text, re_finditer(all_patterns[p], text, TRUE)[k],
                        MatchGroup(text, re_finditer(all_patterns[p], text, TRUE)[k], 1),
                        normalize_quote(MatchGroup(text,
                            re_finditer(all_patterns[p], text, TRUE)[k], 1))) /= <<>>})
         + PatternMatches(text, p + 1)

DirectQuotes(quotations) ==
    Cardinality({k \in DOMAIN quotations : quotations[k].is_direct_quote})

\* C16 (untargeted half): the untargeted scan makes one candidate for every
\* match of every entry of all_patterns.
UntargetedEveryPattern ==
    at_pc = "scanned" => Len(at_scanned) = PatternMatches(at_case.text, 1)

\* C16 (targeted half): the figure-anchored scan makes one direct-quote
\* candidate for every attribution pattern that matches around an alias.
TargetedEveryPattern ==
    at_pc \in {"extracted", "scanned"} =>
        DirectQuotes(at_extracted)
            = AttributionMatches(at_case.text,
                                 PatternTexts(NotableFigures[at_case.figure].search_patterns), 1)

\* C16: every pattern is tried on every text and a region matched by k
\* patterns yields k candidates, in the untargeted scan as well as in the
\* figure-anchored scan.
C16_EveryPatternYieldsCandidate == UntargetedEveryPattern /\ TargetedEveryPattern


\* C17 (untargeted half): every candidate of the untargeted scan has at least
\* MIN_QUOTE_LENGTH characters, stripped and normalized.
UntargetedLongEnough ==
    \A k \in 1..Len(at_scanned) :
        /\ Len(at_scanned[k].original) >= MIN_QUOTE_LENGTH
        /\ Len(at_scanned[k].normalized) >= MIN_QUOTE_LENGTH

\* C17 (targeted half): every candidate of the figure-anchored extraction
\* has a quote text of at least MIN_QUOTE_LENGTH characters after normalization.
TargetedLongEnough ==
    \A k \in 1..Len(at_extracted) :
        Len(normalize_quote(at_extracted[k].quote_text)) >= MIN_QUOTE_LENGTH

\* C17: every candidate that is created, by the untargeted scan or by the
\* figure-anchored extraction, has a quote text of at least 20 characters
\* after normalization.
C17_CandidateLongEnough == UntargetedLongEnough /\ TargetedLongEnough


\* some weak indicator matches the lower-cased context for some alias of the figure
WeaklyIndicated(context_text, figure) ==
    \E p \in DOMAIN PatternTexts(NotableFigures[figure].search_patterns) :
        \E k \in DOMAIN weak_indicators :
            re_search(weak_indicators[k].regex, StrLower(context_text), TRUE,
                      StrLower(PatternTexts(NotableFigures[figure].search_patterns)[p])).end >= 0

\* for every chunk text and figure of the stores: whether a weak indicator matches
WeakMemo ==
    {<<r.text, f, WeaklyIndicated(r.text, f)>> : r \in ChunkPool, f \in DOMAIN NotableFigures}

\* only the bare mention of the figure was found around the quotation q
BareMention(q) == <<q.context_text, q.figure_id, FALSE>> \in WeakMemo

\* the bands of the confidence score, in hundredths
ConfidenceInBand(q) ==
    /\ q.confidence_score \in 0..100
    /\ q.is_direct_quote => q.confidence_score >= 90
    /\ ~q.is_direct_quote => q.confidence_score \in BASE_CONFIDENCE..50
    /\ (~q.is_direct_quote /\ BareMention(q)) => q.confidence_score = BASE_CONFIDENCE

\* C18: every quotation the figure-anchored extraction emits has a confidence
\* within [0, 1]; at least 0.9 when it is a direct quote; between 0.3 and 0.5
\* when it is not, and 0.3 when only the bare mention was found.
C18_ConfidenceBands ==
    /\ \A k \in 1..Len(ex_pending) : ConfidenceInBand(ex_pending[k])
    /\ \A k \in 1..Len(ex_table) : ConfidenceInBand(ex_table[k])

\* a committed table with a direct quote, a weakly indicated mention and a
\* bare mention
C18_Witness ==
    /\ ex_pc = "done"
    /\ \E k \in 1..Len(ex_table) :
           ex_table[k].is_direct_quote /\ ex_table[k].confidence_score >= 90
    /\ \E k \in 1..Len(ex_table) :
           /\ ~ex_table[k].is_direct_quote
           /\ ~BareMention(ex_table[k])
           /\ ex_table[k].confidence_score \in {40, 50}
    /\ \E k \in 1..Len(ex_table) :
           /\ ~ex_table[k].is_direct_quote
           /\ BareMention(ex_table[k])
           /\ ex_table[k].confidence_score = BASE_CONFIDENCE


\* C20: in every cluster of the grouping pass the first member is the seed,
\* no member has a lower candidate index, and every other member is at least
\* 0.85 similar to the seed and was in no cluster before.
C20_SeedFirstMembersNearSeed ==
    \A c \in 1..Len(clusters) :
        /\ Len(clusters[c]) >= 1
        /\ \A k \in 2..Len(clusters[c]) :
              /\ clusters[c][1] < clusters[c][k]
              /\ Similar(all_quotes[clusters[c][1]].normalized,
                         all_quotes[clusters[c][k]].normalized)
              /\ \A b \in 1..(c - 1) : clusters[c][k] \notin Members(b)
        /\ \A b \in 1..(c - 1) : clusters[b][1] < clusters[c][1]

\* C20 witness: a cluster has two members besides the seed that are not
\* similar to each other, in either order of the comparison.
C20_Witness ==
    \E c \in 1..Len(clusters) : \E j, k \in 2..Len(clusters[c]) :
        /\ j < k
        /\ ~Similar(all_quotes[clusters[c][j]].normalized,
                    all_quotes[clusters[c][k]].normalized)
        /\ ~Similar(all_quotes[clusters[c][k]].normalized,
                    all_quotes[clusters[c][j]].normalized)


\* the groups kept from cluster c on, in the order the pass closed them
RECURSIVE KeptClusters(_)
KeptClusters(c) ==
    IF c > Len(clusters) THEN <<>>
    ELSE (IF Len(clusters[c]) >= 2 THEN <<GroupOfCluster(c)>> ELSE <<>>) \o KeptClusters(c + 1)

\* the report section at rank i shows this group
SectionShows(entry, group, i) ==
    /\ entry.rank = i
    /\ entry.count = Len(group)
    /\ entry.quote = MostCommon(Originals(group))

\* C19: the report lists the first 50 groups of the ranked list and the
\* console the first 10, rank by rank in the order of the list, and the list
\* is the one analyze_quotes returned, with every group's members, after
\* generate_report and after the console listing.
C19_TopNKeepsRanking ==
    /\ Returned => quote_groups = SortByLenDesc(KeptClusters(1))
    /\ Reported =>
          /\ report.found = Len(quote_groups)
          /\ Len(report.entries) = Min(REPORT_TOP, Len(quote_groups))
          /\ \A i \in 1..Len(report.entries) :
                SectionShows(report.entries[i], quote_groups[i], i)
    /\ pc = "done" =>
          /\ Len(console) = Min(CONSOLE_TOP, Len(quote_groups))
          /\ \A i \in 1..Len(console) : console[i] = ConsoleEntry(quote_groups[i], i)

\* C19 witness: a run has ended with more groups than either listing shows,
\* the first group larger than the last
C19_Witness ==
    /\ pc = "done"
    /\ Len(quote_groups) > REPORT_TOP
    /\ Len(report.entries) = REPORT_TOP
    /\ Len(console) = CONSOLE_TOP
    /\ Len(quote_groups[1]) > Len(quote_groups[Len(quote_groups)])


\* the clusters of one candidate
ClustersOf(i) == {c \in 1..Len(clusters) : i \in Members(c)}

\* the clusters with one member, which the pass does not keep
Singletons == {c \in 1..Len(clusters) : Len(clusters[c]) = 1}

\* C21: the grouping pass partitions the candidates: no candidate is in two
\* clusters or twice in one, and when the pass has ended every candidate is in
\* exactly one cluster and the kept groups hold every candidate but the
\* singletons.
C21_ClustersPartition ==
    /\ \A i \in 1..Len(all_quotes) : Cardinality(ClustersOf(i)) <= 1
    /\ \A c \in 1..Len(clusters) : Cardinality(Members(c)) = Len(clusters[c])
    /\ GroupingDone =>
          /\ \A i \in 1..Len(all_quotes) : Cardinality(ClustersOf(i)) = 1
          /\ SumLen(quote_groups) = Len(all_quotes) - Cardinality(Singletons)

\* C21 witness: the pass has ended with a kept group and a singleton
C21_Witness ==
    /\ GroupingDone
    /\ Len(all_quotes) >= 3
    /\ Singletons /= {}
    /\ \E c \in 1..Len(clusters) : Len(clusters[c]) >= 2


\* the seed of cluster c
SeedOf(c) == clusters[c][1]

\* the clusters whose seed precedes candidate j and is similar to it, as
\* are_similar(seed, candidate) has it
SimilarSeedsBefore(j) ==
    {c \in 1..Len(clusters) :
        /\ SeedOf(c) < j
        /\ Similar(all_quotes[SeedOf(c)].normalized, all_quotes[j].normalized)}

\* the first of a set of clusters
Earliest(cs) == CHOOSE c \in cs : \A d \in cs : c <= d

\* C22: candidates are taken in list order and the first one not yet in a
\* group becomes a seed; a candidate similar to a seed before it is in the
\* group of the earliest such seed, and a candidate similar to no seed
\* before it becomes a seed when the pass reaches it.
C22_GreedyAssignment ==
    /\ \A i \in 1..gi : i \in used
    /\ \A c \in 1..Len(clusters) :
          /\ SeedOf(c) <= gi
          /\ \A b \in 1..(c - 1) : SeedOf(b) < SeedOf(c)
    /\ \A j \in 1..Len(all_quotes) :
          IF SimilarSeedsBefore(j) = {}
          THEN /\ j <= gi => \E c \in 1..Len(clusters) : SeedOf(c) = j
               /\ j > gi => j \notin used
          ELSE /\ j \in Members(Earliest(SimilarSeedsBefore(j)))
               /\ \A c \in 1..Len(clusters) : SeedOf(c) /= j

\* C22 witness: the pass has ended; a candidate similar to two seeds before
\* it is in the group of the earlier one, and a later candidate is a seed
C22_Witness ==
    /\ GroupingDone
    /\ \E j \in 1..Len(all_quotes) :
          /\ Cardinality(SimilarSeedsBefore(j)) >= 2
          /\ j \in Members(Earliest(SimilarSeedsBefore(j)))
    /\ \E c \in 2..Len(clusters) : SimilarSeedsBefore(SeedOf(c)) = {}


\* C23: the list analyze_quotes returns is in non-increasing order of member
\* count: of two adjacent groups the earlier has at least as many members.
C23_RankedByCount ==
    Returned =>
        \A i \in 1..(Len(quote_groups) - 1) :
            Len(quote_groups[i]) >= Len(quote_groups[i + 1])

\* C23 witness: a list of groups of different sizes was returned, in another
\* order than the pass closed the groups in
C23_Witness ==
    /\ Returned
    /\ Len(quote_groups) >= 2
    /\ Len(quote_groups[1]) > Len(quote_groups[Len(quote_groups)])
    /\ quote_groups /= KeptClusters(1)

\* where the group is in the list of the groups the pass kept
PlaceIn(kept, group) == CHOOSE k \in 1..Len(kept) : kept[k] = group

\* groups of one size are in the list as they are in kept, seeds in the
\* order of their speeches
TiesAsIn(kept) ==
    \A i, j \in 1..Len(quote_groups) :
        (i < j /\ Len(quote_groups[i]) = Len(quote_groups[j])) =>
            /\ PlaceIn(kept, quote_groups[i]) < PlaceIn(kept, quote_groups[j])
            /\ quote_groups[i][1].year <= quote_groups[j][1].year

\* C24: groups with the same member count are ranked in the order in which
\* their seeds occur in the candidate list, which is the order of the
\* speeches by year.
C24_TiesInSeedOrder == Returned => TiesAsIn(KeptClusters(1))

\* C24 witness: a list was returned in which two groups of one size follow a
\* larger group that the pass closed after one of them
C24_Witness ==
    /\ Returned
    /\ \E i, j \in 1..Len(quote_groups) :
          /\ i < j
          /\ Len(quote_groups[i]) = Len(quote_groups[j])
          /\ quote_groups[i][1].year < quote_groups[j][1].year
    /\ quote_groups /= KeptClusters(1)


\* the context window of candidate k of the scanned text
WindowAt(k) == ContextWindow(at_case.text, at_scanned[k].match_start)

\* some key of FAMOUS_FIGURES is in the lower-cased window
AliasIn(context) ==
    \E f \in 1..Len(FAMOUS_FIGURES) : Contains(StrLower(context), FAMOUS_FIGURES[f].key)

\* the matches of all name patterns in the window: where each ends, and the
\* name it captures
NameEnds(context) ==
    UNION {{<<re_finditer(name_patterns[p], context, FALSE)[k].end,
              MatchGroup(context, re_finditer(name_patterns[p], context, FALSE)[k], 1)>> :
                k \in DOMAIN re_finditer(name_patterns[p], context, FALSE)} :
           p \in DOMAIN name_patterns}

\* the names of the matches that end last in the window; None when nothing matches
LastNames(ends) ==
    IF ends = {} THEN {None}
    ELSE {e[2] : e \in {d \in ends : \A c \in ends : c[1] <= d[1]}}

\* C25: when no alias of the figure table is in the window, the speaker is
\* the name of the name-pattern match, of any pattern, that ends closest to
\* the quotation.
C25_LastNameInWindow ==
    at_pc = "scanned" =>
        \A k \in 1..Len(at_scanned) :
            ~AliasIn(WindowAt(k)) =>
                at_scanned[k].quoted_person \in LastNames(NameEnds(WindowAt(k)))


\* the entries of FAMOUS_FIGURES whose key is in the lower-cased window
KeysIn(context) ==
    {f \in 1..Len(FAMOUS_FIGURES) : Contains(StrLower(context), FAMOUS_FIGURES[f].key)}

\* where in the lower-cased window the key of entry f is first found
KeyOffset(context, f) == Find(StrLower(context), FAMOUS_FIGURES[f].key)

\* C26: the speaker is the name of the first entry of FAMOUS_FIGURES, in
\* table order, whose key is in the lower-cased window, wherever the key is
\* and whatever other keys are there; only a window without a key is
\* searched with the name patterns.
C26_AliasByTableOrder ==
    at_pc = "scanned" =>
        \A k \in 1..Len(at_scanned) :
            IF KeysIn(WindowAt(k)) /= {}
            THEN \E f \in KeysIn(WindowAt(k)) :
                    /\ \A g \in KeysIn(WindowAt(k)) : f <= g
                    /\ at_scanned[k].quoted_person = FAMOUS_FIGURES[f].name
            ELSE at_scanned[k].quoted_person = NameFromPatterns(WindowAt(k), 1)

\* C26 witness: the window holds the keys of two figures; the one that
\* decides is later in the text than the other, or is part of the longer key
\* of another figure, and a name pattern matches in the window as well
C26_Witness ==
    /\ at_pc = "scanned"
    /\ \E k \in 1..Len(at_scanned) : \E f, g \in KeysIn(WindowAt(k)) :
          /\ f < g
          /\ \A h \in KeysIn(WindowAt(k)) : f <= h
          /\ FAMOUS_FIGURES[f].name /= FAMOUS_FIGURES[g].name
          /\ at_scanned[k].quoted_person = FAMOUS_FIGURES[f].name
          /\ \/ KeyOffset(WindowAt(k), f) > KeyOffset(WindowAt(k), g)
             \/ Contains(FAMOUS_FIGURES[g].key, FAMOUS_FIGURES[f].key)
          /\ NameEnds(WindowAt(k)) /= {}


\* the aliases from alias p on that the text contains, in list order: the
\* rows the queries of the figure return for a store of this one chunk
RECURSIVE FoundAliases(_, _, _)
FoundAliases(text, patterns, p) ==
    IF p > Len(patterns) THEN <<>>
    ELSE (IF Like(text, patterns[p]) THEN <<patterns[p]>> ELSE <<>>)
         \o FoundAliases(text, patterns, p + 1)

\* the scores of the weak indicators that match the context of an alias
WeakScores(context_text, pattern) ==
    {weak_indicators[k].score : k \in
        {i \in DOMAIN weak_indicators :
            re_search(weak_indicators[i].regex, StrLower(context_text), TRUE,
                      StrLower(pattern)).end >= 0}}

Largest(S) == CHOOSE x \in S : \A y \in S : y <= x

Smallest(S) == CHOOSE x \in S : \A y \in S : x <= y

\* the quotation is what the first matching attribution pattern gives, or,
\* when none of them (matching) matches, what the weak indicators give
DecidedByFirst(q, matching, weak) ==
    IF matching /= {}
    THEN /\ q.is_direct_quote
         /\ q.confidence_score = attribution_patterns[Smallest(matching)].score
    ELSE /\ ~q.is_direct_quote
         /\ q.confidence_score = Largest({BASE_CONFIDENCE} \cup weak)

\* one quotation for each alias found, each decided as above
OnePerAlias(found) ==
    /\ Len(at_extracted) = Len(found)
    /\ \A r \in 1..Len(found) :
          DecidedByFirst(at_extracted[r],
                         MatchingAttributions(at_extracted[r].context_text, found[r]),
                         WeakScores(at_extracted[r].context_text, found[r]))

\* C28: the figure-anchored extraction makes exactly one quotation for each
\* alias found in a chunk; the first attribution pattern in list order that
\* matches makes it a direct quote with that pattern's score, whatever
\* matches later; when none matches, the confidence is the largest of 0.3
\* and the scores of the weak indicators that match.
C28_FirstPatternDecides ==
    at_pc /= "start" =>
        OnePerAlias(FoundAliases(at_case.text,
                                 PatternTexts(NotableFigures[at_case.figure].search_patterns), 1))

\* C28 witness: a quotation was decided by a pattern of score 0.9 although a
\* pattern later in the list, of score 0.95, matches the context as well
C28_Witness ==
    /\ at_pc /= "start"
    /\ \E r \in 1..Len(at_extracted) :
          \E i, j \in MatchingAttributions(at_extracted[r].context_text,
                                           Chars("Mandela")) :
              /\ i = 3
              /\ i < j
              /\ attribution_patterns[i].score < attribution_patterns[j].score
              /\ at_extracted[r].confidence_score = attribution_patterns[i].score


(***************************************************************************)
(* deduplicate_quotations on lists of quotations                           *)
(***************************************************************************)
MaxDedupLen == 3

\* a quote of more than 100 characters, and one that differs from it only
\* after the first 100
LongQuote(ending) == Chars(CHARTER_A) \o Chars(", and ") \o Chars(CHARTER_B)
                         \o Chars(ending)

\* quotations as extract_quotations_for_figure appends them (lines 151-161)
DedupPool ==
    {[figure_id |-> 1, speech_id |-> s, chunk_id |-> 10 * s + t.chunk,
      quote_text |-> t.text, context_text |-> t.text, year |-> 1990 + s,
      country_name |-> "Ghana", is_direct_quote |-> t.direct,
      confidence_score |-> t.score] :
        s \in 1..2,
        t \in {[chunk |-> 1, text |-> Chars(CHARTER_A), direct |-> TRUE, score |-> 95],
               [chunk |-> 2, text |-> LongQuote(" today"), direct |-> TRUE, score |-> 90],
               [chunk |-> 3, text |-> LongQuote(" again"), direct |-> FALSE, score |-> 30]}}

RECURSIVE ListsUpTo(_, _)
ListsUpTo(pool, n) ==
    IF n = 0 THEN {<<>>}
    ELSE ListsUpTo(pool, n - 1)
         \cup {Append(l, q) : l \in {m \in ListsUpTo(pool, n - 1) : Len(m) = n - 1},
                              q \in pool}

DedupInit ==
    /\ NormIdle
    /\ AnalyzeIdle
    /\ AttrIdle
    /\ ExtractIdle
    /\ DiscourseIdle
    /\ dq_pc = "start"
    /\ dq_in \in ListsUpTo(DedupPool, MaxDedupLen)
    /\ dq_out = <<>>
    /\ dq_again = <<>>

\* unique_quotations = deduplicate_quotations(quotations)
DedupOnce ==
    /\ dq_pc = "start"
    /\ dq_out' = deduplicate_quotations(dq_in)
    /\ dq_pc' = "once"
    /\ UNCHANGED <<dq_in, dq_again, nq_vars, an_vars, at_vars, ex_vars, da_vars>>

\* the function applied to its own output
DedupTwice ==
    /\ dq_pc = "once"
    /\ dq_again' = deduplicate_quotations(dq_out)
    /\ dq_pc' = "twice"
    /\ UNCHANGED <<dq_in, dq_out, nq_vars, an_vars, at_vars, ex_vars, da_vars>>

DedupNext == DedupOnce \/ DedupTwice

SpecDedup == DedupInit /\ [][DedupNext]_vars

\* two quotations of one speech whose texts agree on the first 100 characters
SameKey(a, b) ==
    /\ a.speech_id = b.speech_id
    /\ Len(a.quote_text) = Len(b.quote_text) \/ Len(a.quote_text) >= 100
    /\ Len(b.quote_text) = Len(a.quote_text) \/ Len(b.quote_text) >= 100
    /\ \A i \in 1..100 :
          i <= Len(a.quote_text) /\ i <= Len(b.quote_text)
              => a.quote_text[i] = b.quote_text[i]

\* the positions of list whose key no earlier position has
FirstOfKey(list) ==
    {i \in 1..Len(list) : \A j \in 1..(i - 1) : ~SameKey(list[j], list[i])}

\* the r-th smallest member of a set of positions
Nth(positions, r) ==
    CHOOSE i \in positions : Cardinality({j \in positions : j <= i}) = r

\* out is list restricted to the first position of every key, in order
KeepsFirstOfKey(list, out) ==
    /\ Len(out) = Cardinality(FirstOfKey(list))
    /\ \A r \in 1..Len(out) : out[r] = list[Nth(FirstOfKey(list), r)]

\* C29: deduplicate_quotations returns its input restricted, in order, to
\* the first element of every key (speech_id, first 100 characters of
\* quote_text); no two elements of the output have the same key, and the
\* function returns its own output unchanged.
C29_KeepsFirstOfEachKey ==
    /\ dq_pc \in {"once", "twice"} =>
          /\ KeepsFirstOfKey(dq_in, dq_out)
          /\ \A i, j \in 1..Len(dq_out) : i /= j => ~SameKey(dq_out[i], dq_out[j])
    /\ dq_pc = "twice" => dq_again = dq_out

\* C29 witness: a later quotation with the key of an earlier one, but another
\* text, was dropped, a quotation with the same text in another speech was
\* kept, and the function ran on its output
C29_Witness ==
    /\ dq_pc = "twice"
    /\ Len(dq_in) = 3
    /\ Len(dq_out) = 2
    /\ SameKey(dq_in[1], dq_in[2])
    /\ dq_in[1].quote_text /= dq_in[2].quote_text
    /\ dq_in[3].quote_text = dq_in[2].quote_text
    /\ dq_in[3].speech_id /= dq_in[2].speech_id
    /\ dq_out = <<dq_in[1], dq_in[3]>>


(***************************************************************************)
(* discourse_analysis.py: the concept dictionary, the world events and     *)
(* their seeding into the store (main, steps 1 to 3)                       *)
(***************************************************************************)
MaxSeedRuns == 3

\* Python's None, SQL's NULL
NULL == "NULL"

\* CONCEPTS, in the order of the dict; a term is <<term, weight>>, the weight
\* in hundredths
CONCEPTS == <<
    [name |-> "rearmament",
     description |->
         "Military buildup, increased defense spending, weapons acquisition, militarization",
     category |-> "military",
     terms |-> <<
            <<"rearmament", 100>>,
            <<"re-armament", 100>>,
            <<"military buildup", 95>>,
            <<"military build-up", 95>>,
            <<"arms buildup", 95>>,
            <<"arms build-up", 95>>,
            <<"defense spending", 80>>,
            <<"defence spending", 80>>,
            <<"military spending", 80>>,
            <<"military expenditure", 80>>,
            <<"military expenditures", 80>>,
            <<"arms race", 90>>,
            <<"arms races", 90>>,
            <<"militarization", 85>>,
            <<"militarisation", 85>>,
            <<"military modernization", 80>>,
            <<"military modernisation", 80>>,
            <<"weapons acquisition", 85>>,
            <<"arms acquisition", 85>>,
            <<"arms procurement", 85>>,
            <<"defense budget", 75>>,
            <<"defence budget", 75>>,
            <<"military budget", 75>>,
            <<"armed forces expansion", 90>>,
            <<"troop increases", 80>>,
            <<"nuclear armament", 90>>,
            <<"conventional armament", 90>>>>],
    [name |-> "disarmament",
     description |->
         "Reduction of weapons, arms control, demilitarization",
     category |-> "military",
     terms |-> <<
            <<"disarmament", 100>>,
            <<"arms control", 95>>,
            <<"arms reduction", 95>>,
            <<"weapons reduction", 90>>,
            <<"demilitarization", 90>>,
            <<"demilitarisation", 90>>,
            <<"nuclear disarmament", 100>>,
            <<"nuclear-free", 85>>,
            <<"denuclearization", 95>>,
            <<"denuclearisation", 95>>,
            <<"arms limitation", 90>>,
            <<"weapons ban", 85>>,
            <<"arms embargo", 80>>,
            <<"non-proliferation", 85>>,
            <<"nonproliferation", 85>>,
            <<"test ban", 80>>,
            <<"arms treaty", 85>>,
            <<"disarm", 90>>>>],
    [name |-> "climate_change",
     description |->
         "Global warming, environmental crisis, carbon emissions",
     category |-> "environment",
     terms |-> <<
            <<"climate change", 100>>,
            <<"global warming", 100>>,
            <<"climate crisis", 100>>,
            <<"climate emergency", 100>>,
            <<"greenhouse gas", 90>>,
            <<"greenhouse gases", 90>>,
            <<"carbon emissions", 90>>,
            <<"carbon dioxide emissions", 90>>,
            <<"CO2 emissions", 90>>,
            <<"fossil fuels", 80>>,
            <<"renewable energy", 75>>,
            <<"Paris Agreement", 85>>,
            <<"Kyoto Protocol", 85>>,
            <<"net zero", 85>>,
            <<"net-zero", 85>>,
            <<"carbon neutral", 85>>,
            <<"decarbonization", 85>>,
            <<"decarbonisation", 85>>,
            <<"rising temperatures", 80>>,
            <<"sea level rise", 85>>,
            <<"melting ice", 80>>,
            <<"extreme weather", 75>>>>],
    [name |-> "human_rights",
     description |->
         "Fundamental rights and freedoms, civil liberties, dignity",
     category |-> "rights",
     terms |-> <<
            <<"human rights", 100>>,
            <<"fundamental rights", 95>>,
            <<"civil rights", 90>>,
            <<"civil liberties", 90>>,
            <<"human dignity", 85>>,
            <<"Universal Declaration", 90>>,
            <<"freedom of speech", 85>>,
            <<"freedom of expression", 85>>,
            <<"freedom of religion", 85>>,
            <<"freedom of assembly", 85>>,
            <<"political prisoners", 85>>,
            <<"arbitrary detention", 85>>,
            <<"torture", 80>>,
            <<"genocide", 90>>,
            <<"ethnic cleansing", 90>>,
            <<"crimes against humanity", 95>>,
            <<"right to life", 85>>,
            <<"right to liberty", 85>>>>],
    [name |-> "sovereignty",
     description |->
         "National independence, territorial integrity, self-determination",
     category |-> "political",
     terms |-> <<
            <<"sovereignty", 100>>,
            <<"sovereign rights", 95>>,
            <<"territorial integrity", 95>>,
            <<"self-determination", 95>>,
            <<"national independence", 90>>,
            <<"non-interference", 85>>,
            <<"non-intervention", 85>>,
            <<"internal affairs", 80>>,
            <<"domestic affairs", 80>>,
            <<"sovereign equality", 90>>,
            <<"national sovereignty", 100>>,
            <<"sovereign state", 85>>,
            <<"sovereign nation", 85>>,
            <<"inviolability", 80>>,
            <<"border integrity", 85>>>>],
    [name |-> "terrorism",
     description |->
         "Terrorist threats, counter-terrorism, extremism",
     category |-> "security",
     terms |-> <<
            <<"terrorism", 100>>,
            <<"terrorist", 95>>,
            <<"terrorists", 95>>,
            <<"terrorist attacks", 100>>,
            <<"terrorist threat", 95>>,
            <<"counter-terrorism", 95>>,
            <<"counterterrorism", 95>>,
            <<"anti-terrorism", 90>>,
            <<"extremism", 85>>,
            <<"violent extremism", 90>>,
            <<"radicalization", 85>>,
            <<"radicalisation", 85>>,
            <<"suicide bombing", 90>>,
            <<"terrorist organization", 95>>,
            <<"terrorist organisation", 95>>,
            <<"terrorist group", 95>>,
            <<"9/11", 90>>,
            <<"September 11", 85>>>>],
    [name |-> "refugees",
     description |->
         "Displaced persons, asylum seekers, migration crises",
     category |-> "humanitarian",
     terms |-> <<
            <<"refugees", 100>>,
            <<"refugee crisis", 100>>,
            <<"refugee camp", 90>>,
            <<"refugee camps", 90>>,
            <<"asylum seekers", 95>>,
            <<"asylum seeker", 95>>,
            <<"displaced persons", 95>>,
            <<"internally displaced", 95>>,
            <<"forced displacement", 95>>,
            <<"forced migration", 90>>,
            <<"mass migration", 85>>,
            <<"migration crisis", 90>>,
            <<"UNHCR", 85>>,
            <<"resettlement", 80>>,
            <<"humanitarian corridor", 85>>,
            <<"safe haven", 75>>>>],
    [name |-> "nuclear_weapons",
     description |->
         "Nuclear arms, atomic weapons, nuclear deterrence",
     category |-> "military",
     terms |-> <<
            <<"nuclear weapons", 100>>,
            <<"nuclear weapon", 100>>,
            <<"atomic weapons", 95>>,
            <<"atomic bomb", 95>>,
            <<"nuclear bomb", 95>>,
            <<"nuclear arsenal", 95>>,
            <<"nuclear deterrent", 90>>,
            <<"nuclear deterrence", 90>>,
            <<"nuclear power", 70>>,
            <<"nuclear threat", 90>>,
            <<"nuclear war", 95>>,
            <<"mushroom cloud", 85>>,
            <<"Hiroshima", 80>>,
            <<"Nagasaki", 80>>,
            <<"ICBM", 90>>,
            <<"ballistic missile", 85>>,
            <<"warhead", 85>>,
            <<"nuclear stockpile", 95>>>>]>>

\* WORLD_EVENTS; a key the entry does not have is NULL, as event.get gives
WORLD_EVENTS == <<
    [name |-> "Korean War", year |-> 1950, end_year |-> 1953,
     category |-> "war", region |-> "Asia", description |-> NULL,
     concepts |-> <<"rearmament", "nuclear_weapons">>],
    [name |-> "Hungarian Revolution", year |-> 1956, end_year |-> NULL,
     category |-> "crisis", region |-> "Europe", description |-> NULL,
     concepts |-> <<"sovereignty", "human_rights">>],
    [name |-> "Suez Crisis", year |-> 1956, end_year |-> NULL,
     category |-> "crisis", region |-> "Middle East", description |-> NULL,
     concepts |-> <<"sovereignty">>],
    [name |-> "Cuban Missile Crisis", year |-> 1962, end_year |-> NULL,
     category |-> "crisis", region |-> "Americas", description |-> NULL,
     concepts |-> <<"nuclear_weapons", "disarmament">>],
    [name |-> "Vietnam War escalation", year |-> 1964, end_year |-> 1975,
     category |-> "war", region |-> "Asia", description |-> NULL,
     concepts |-> <<"sovereignty", "human_rights">>],
    [name |-> "Prague Spring / Soviet invasion", year |-> 1968, end_year |-> NULL,
     category |-> "crisis", region |-> "Europe", description |-> NULL,
     concepts |-> <<"sovereignty", "human_rights">>],
    [name |-> "SALT I Treaty", year |-> 1972, end_year |-> NULL,
     category |-> "treaty", region |-> "Global", description |-> NULL,
     concepts |-> <<"disarmament", "nuclear_weapons">>],
    [name |-> "Helsinki Accords", year |-> 1975, end_year |-> NULL,
     category |-> "treaty", region |-> "Europe", description |-> NULL,
     concepts |-> <<"human_rights", "sovereignty">>],
    [name |-> "Soviet invasion of Afghanistan", year |-> 1979, end_year |-> 1989,
     category |-> "war", region |-> "Asia", description |-> NULL,
     concepts |-> <<"sovereignty", "refugees">>],
    [name |-> "INF Treaty", year |-> 1987, end_year |-> NULL,
     category |-> "treaty", region |-> "Global", description |-> NULL,
     concepts |-> <<"disarmament", "nuclear_weapons">>],
    [name |-> "Fall of Berlin Wall", year |-> 1989, end_year |-> NULL,
     category |-> "revolution", region |-> "Europe", description |-> NULL,
     concepts |-> <<"sovereignty", "human_rights">>],
    [name |-> "Gulf War", year |-> 1991, end_year |-> NULL,
     category |-> "war", region |-> "Middle East", description |-> NULL,
     concepts |-> <<"sovereignty">>],
    [name |-> "Rwandan Genocide", year |-> 1994, end_year |-> NULL,
     category |-> "crisis", region |-> "Africa", description |-> NULL,
     concepts |-> <<"human_rights", "refugees">>],
    [name |-> "Srebrenica massacre", year |-> 1995, end_year |-> NULL,
     category |-> "crisis", region |-> "Europe", description |-> NULL,
     concepts |-> <<"human_rights", "refugees">>],
    [name |-> "Kyoto Protocol adopted", year |-> 1997, end_year |-> NULL,
     category |-> "treaty", region |-> "Global", description |-> NULL,
     concepts |-> <<"climate_change">>],
    [name |-> "September 11 attacks", year |-> 2001, end_year |-> NULL,
     category |-> "crisis", region |-> "Global", description |-> NULL,
     concepts |-> <<"terrorism">>],
    [name |-> "US invasion of Iraq", year |-> 2003, end_year |-> NULL,
     category |-> "war", region |-> "Middle East", description |-> NULL,
     concepts |-> <<"sovereignty", "terrorism">>],
    [name |-> "Darfur crisis", year |-> 2003, end_year |-> 2010,
     category |-> "crisis", region |-> "Africa", description |-> NULL,
     concepts |-> <<"human_rights", "refugees">>],
    [name |-> "Arab Spring", year |-> 2011, end_year |-> NULL,
     category |-> "revolution", region |-> "Middle East", description |-> NULL,
     concepts |-> <<"human_rights", "sovereignty">>],
    [name |-> "Syrian Civil War begins", year |-> 2011, end_year |-> NULL,
     category |-> "war", region |-> "Middle East", description |-> NULL,
     concepts |-> <<"refugees", "human_rights", "terrorism">>],
    [name |-> "Russian annexation of Crimea", year |-> 2014, end_year |-> NULL,
     category |-> "crisis", region |-> "Europe", description |-> NULL,
     concepts |-> <<"sovereignty", "rearmament">>],
    [name |-> "Paris Climate Agreement", year |-> 2015, end_year |-> NULL,
     category |-> "treaty", region |-> "Global", description |-> NULL,
     concepts |-> <<"climate_change">>],
    [name |-> "European refugee crisis peak", year |-> 2015, end_year |-> NULL,
     category |-> "crisis", region |-> "Europe", description |-> NULL,
     concepts |-> <<"refugees">>],
    [name |-> "ISIS territorial peak", year |-> 2015, end_year |-> NULL,
     category |-> "crisis", region |-> "Middle East", description |-> NULL,
     concepts |-> <<"terrorism", "refugees">>],
    [name |-> "COVID-19 pandemic", year |-> 2020, end_year |-> 2023,
     category |-> "crisis", region |-> "Global", description |-> NULL,
     concepts |-> <<"human_rights">>],
    [name |-> "Russian invasion of Ukraine", year |-> 2022, end_year |-> NULL,
     category |-> "war", region |-> "Europe", description |-> NULL,
     concepts |-> <<"sovereignty", "rearmament", "refugees", "nuclear_weapons">>],
    [name |-> "Hamas attack / Gaza war", year |-> 2023, end_year |-> NULL,
     category |-> "war", region |-> "Middle East", description |-> NULL,
     concepts |-> <<"terrorism", "human_rights", "refugees">>]>>

\* the rowid an INTEGER PRIMARY KEY gets on insert: one more than the largest
RowId(table) ==
    IF table = <<>> THEN 1
    ELSE Largest({table[i].id : i \in DOMAIN table}) + 1

\* cursor.fetchone()[0] for a SELECT of ids: the first row of the scan
FirstId(table, positions) == table[Smallest(positions)].id

\* INSERT OR IGNORE INTO concepts: name is UNIQUE (lines 27-34, 387-390)
InsertConcept(table, name, data) ==
    IF \E i \in DOMAIN table : table[i].name = name THEN table
    ELSE Append(table, [id |-> RowId(table), name |-> name,
                        description |-> data.description,
                        category |-> data.category])

\* SELECT id FROM concepts WHERE name = ?: the positions of the rows
ConceptsNamed(table, name) == {i \in DOMAIN table : table[i].name = name}

\* INSERT OR IGNORE INTO concept_terms: UNIQUE(concept_id, term), term_type
\* takes its default (lines 37-46, 397-402); from term k of the concept on
RECURSIVE InsertTerms(_, _, _, _)
InsertTerms(table, concept_id, terms, k) ==
    IF k > Len(terms) THEN table
    ELSE InsertTerms(
             IF \E i \in DOMAIN table :
                    table[i].concept_id = concept_id /\ table[i].term = terms[k][1]
             THEN table
             ELSE Append(table, [id |-> RowId(table), concept_id |-> concept_id,
                                 term |-> terms[k][1], term_type |-> "phrase",
                                 weight |-> terms[k][2]]),
             concept_id, terms, k + 1)

\* INSERT OR IGNORE INTO world_events: the table has no key but id, so
\* nothing is ever ignored (lines 59-69, 416-421)
InsertEvent(table, event) ==
    Append(table, [id |-> RowId(table), name |-> event.name, year |-> event.year,
                   end_year |-> event.end_year, category |-> event.category,
                   region |-> event.region, description |-> event.description])

\* SELECT id FROM world_events WHERE name = ? AND year = ?: the positions
EventsNamed(table, name, year) ==
    {i \in DOMAIN table : table[i].name = name /\ table[i].year = year}

\* the loop over event.get("concepts", []) from name k on: INSERT OR IGNORE
\* INTO event_concepts, PRIMARY KEY (event_id, concept_id), for the names
\* that table concepts has (lines 72-79, 428-436)
RECURSIVE LinkConcepts(_, _, _, _, _)
LinkConcepts(table, concepts_table, event_id, names, k) ==
    IF k > Len(names) THEN table
    ELSE LinkConcepts(
             IF ConceptsNamed(concepts_table, names[k]) = {} THEN table
             ELSE IF \E i \in DOMAIN table :
                         /\ table[i].event_id = event_id
                         /\ table[i].concept_id =
                                FirstId(concepts_table,
                                        ConceptsNamed(concepts_table, names[k]))
                  THEN table
                  ELSE Append(table,
                              [event_id |-> event_id,
                               concept_id |-> FirstId(concepts_table,
                                                      ConceptsNamed(concepts_table, names[k])),
                               relevance |-> "primary"]),
             concepts_table, event_id, names, k + 1)

\* the row counts of concepts, concept_terms, world_events, event_concepts
RowCounts(c, t, w, e) == <<Len(c), Len(t), Len(w), Len(e)>>

DiscourseInit ==
    /\ NormIdle
    /\ AnalyzeIdle
    /\ AttrIdle
    /\ ExtractIdle
    /\ DedupIdle
    /\ da_pc = "start"
    /\ da_run = 1
    /\ da_created = FALSE
    /\ concepts = <<>>
    /\ concept_terms = <<>>
    /\ world_events = <<>>
    /\ event_concepts = <<>>
    /\ da_ci = 0
    /\ da_ei = 0
    /\ da_console = <<>>
    /\ da_counts = <<>>

\* create_tables: CREATE TABLE IF NOT EXISTS leaves the rows of a table that
\* exists alone
create_tables ==
    /\ da_pc = "start"
    /\ da_created' = TRUE
    /\ da_pc' = "tables"
    /\ UNCHANGED <<da_run, concepts, concept_terms, world_events, event_concepts,
                   da_ci, da_ei, da_console, da_counts,
                   nq_vars, an_vars, at_vars, ex_vars, dq_vars>>

\* seed_concepts with the tables as they are after the insert of the concept
SeedConceptWith(k, table) ==
    /\ concepts' = table
    /\ concept_terms' =
           InsertTerms(concept_terms, FirstId(table, ConceptsNamed(table, CONCEPTS[k].name)),
                       CONCEPTS[k].terms, 1)
    /\ da_ci' = k
    /\ IF k = Len(CONCEPTS)
       THEN /\ da_pc' = "concepts"
            /\ da_console' = Append(da_console, <<Len(concepts'), Len(concept_terms')>>)
       ELSE UNCHANGED <<da_pc, da_console>>

\* seed_concepts: one round of the loop over CONCEPTS.items(); the last round
\* goes on to the commit and to the count it prints
seed_concepts ==
    /\ da_pc = "tables"
    /\ da_ci < Len(CONCEPTS)
    /\ SeedConceptWith(da_ci + 1,
                       InsertConcept(concepts, CONCEPTS[da_ci + 1].name, CONCEPTS[da_ci + 1]))
    /\ UNCHANGED <<da_run, da_created, world_events, event_concepts, da_ei, da_counts,
                   nq_vars, an_vars, at_vars, ex_vars, dq_vars>>

\* seed_world_events with the table as it is after the insert of the event
SeedEventWith(k, table) ==
    /\ world_events' = table
    /\ event_concepts' =
           LinkConcepts(event_concepts, concepts,
                        FirstId(table, EventsNamed(table, WORLD_EVENTS[k].name,
                                                   WORLD_EVENTS[k].year)),
                        WORLD_EVENTS[k].concepts, 1)
    /\ da_ei' = k
    /\ IF k = Len(WORLD_EVENTS)
       THEN /\ da_pc' = "done"
            /\ da_console' = Append(da_console, <<Len(world_events')>>)
            /\ da_counts' = Append(da_counts,
                                   RowCounts(concepts, concept_terms,
                                             world_events', event_concepts'))
       ELSE UNCHANGED <<da_pc, da_console, da_counts>>

\* seed_world_events: one round of the loop over WORLD_EVENTS; the last round
\* goes on to the commit and to the count it prints
seed_world_events ==
    /\ da_pc = "concepts"
    /\ da_ei < Len(WORLD_EVENTS)
    /\ SeedEventWith(da_ei + 1, InsertEvent(world_events, WORLD_EVENTS[da_ei + 1]))
    /\ UNCHANGED <<da_run, da_created, concepts, concept_terms, da_ci,
                   nq_vars, an_vars, at_vars, ex_vars, dq_vars>>

\* the script is run again on the store it left
DiscourseAgain ==
    /\ da_pc = "done"
    /\ da_run < MaxSeedRuns
    /\ da_run' = da_run + 1
    /\ da_pc' = "start"
    /\ da_ci' = 0
    /\ da_ei' = 0
    /\ da_console' = <<>>
    /\ UNCHANGED <<da_created, concepts, concept_terms, world_events, event_concepts,
                   da_counts, nq_vars, an_vars, at_vars, ex_vars, dq_vars>>

DiscourseNext == create_tables \/ seed_concepts \/ seed_world_events \/ DiscourseAgain

SpecDiscourse == DiscourseInit /\ [][DiscourseNext]_vars

\* C30: seeding is idempotent: a run of seed_concepts and seed_world_events
\* on a store that is seeded leaves the row counts of concepts,
\* concept_terms, world_events and event_concepts as the first run left them.
C30_SeedingIdempotent ==
    \A r \in 1..Len(da_counts) : da_counts[r] = da_counts[1]

====
